---- MODULE Spec2Model ----
(***************************************************************************)
(* Model of the navigation-planning core of Mestrado-PDDL:                 *)
(*   - the route solver of examples/mock_planner.py (bfs_path) over a      *)
(*     graph accumulated the way parse_problem accumulates it;             *)
(*   - the backend registry and facade of planners/pddl_planner.py         *)
(*     (PDDLPlanner.__init__, detection, selection, the solve routines).   *)
(* SpecRoute explores the route solver, SpecBackend the planner facade.    *)
(***************************************************************************)
EXTENDS Integers, Sequences, FiniteSets, TLC

\* ------------------------------------------------------------------------
\* Bounds
\* ------------------------------------------------------------------------

\* Largest number of (conectado a b) facts accumulated into one graph.
MaxEdges == 4

\* The location tokens of the explored problems.
Locs == {"base", "recepcao", "corredor", "farmacia"}

\* bfs_path returns None when the frontier empties; a route is never empty.
NoRoute == <<>>

VARIABLES
    \* --- route solver (examples/mock_planner.py) ---
    edges,      \* the graph: origin -> neighbour list, in declaration order
    start,      \* bfs_path argument
    goal,       \* bfs_path argument
    visited,    \* bfs_path local: set of visited locations
    queue,      \* bfs_path local: deque of [node, path]
    cur,        \* bfs_path locals node, path (last dequeued entry)
    route,      \* value returned by bfs_path
    reads,      \* number of lookups edges.get(...) performed by the call
    enq,        \* how many times each location was appended to the queue
    bpc,        \* position: "idle", "main", "usage", "parse", "entry", "loop",
                \* "done", "exit"
    robot,      \* the robot parse_problem returned
    api_mode,   \* --api was given
    verbose_api, \* --verbose-api was given
    stdout,     \* what mock_planner.main has printed, in order
    mexit,      \* exit code of mock_planner, -1 while running
    \* --- backend registry and facade (planners/pddl_planner.py) ---
    env,        \* what the probes of this process environment answer
    request,    \* the planner_type argument of PDDLPlanner (args.planner)
    outputFile, \* whether an output file was asked for (args.output)
    available,  \* self.available_planners, in detection order
    probed,     \* the backends whose probe has run
    planner_type, \* self.planner_type
    exc,        \* type of the exception that propagated, "" if none
    excFrom,    \* the routine that let it propagate
    routine,    \* the solve routine in progress
    solveCalls, \* the solve routines invoked so far, in order
    tempFiles,  \* temporary .pddl copies of this call that are on disk
    pending,    \* what the try block left for after its finally clause
    result,     \* the tuple returned by solve
    exitCode,   \* exit code of the process, -1 while running
    ppc,        \* position in pddl_planner.main
    raw,        \* --raw was given (args.raw)
    list_planners, \* --list-planners was given (args.list_planners)
    hasFiles,   \* both positionals, domain and problem, were given
    rootArg,    \* the file argument that resolves to "/", "none" if none does
    printed,    \* what pddl_planner.main has printed on stdout, in order
    \* --- integrated system (planner.py, settings.py) ---
    sargs,      \* the parsed command line of planner.py
    senv,       \* what the validations of run_planner find
    failedAt,   \* the validation that failed, "ok" if none, "" before
    cmd,        \* the command built by run_planner
    launches,   \* how many subprocesses run_planner has started
    launched,   \* how the subprocess ended
    success,    \* the value returned by run_planner
    sexit,      \* exit code of planner.py, -1 while running
    spc,        \* position in planner.main
    \* --- labels of locations ---
    token,      \* the location token to label
    mockLabel,  \* label given by the mock planner
    pddlLabel,  \* label given by the per-step encoder of pddl_planner
    labelled,   \* which of the two encoders have run
    \* --- problem extraction (parse_problem of examples/mock_planner.py) ---
    content,    \* the problem text: object lines, position facts, trailer
    robot_names, \* parse_problem local: the robots found so far, in order
    parsed,     \* robot, start_loc and goal_loc as far as they are known
    lookups,    \* the position lookups made so far: section and robot
    perror,     \* the extraction error raised, "" if none
    pprinted,   \* what mock_planner.main printed about the extraction
    pexit,      \* exit code of mock_planner, -1 while running
    qpc         \* position in parse_problem

reportVars == <<robot, api_mode, verbose_api, stdout, mexit>>

routeVars == <<edges, start, goal, visited, queue, cur, route, reads, enq, bpc,
              robot, api_mode, verbose_api, stdout, mexit>>

backendVars == <<env, request, outputFile, available, probed, planner_type, exc,
                 excFrom, routine, solveCalls, tempFiles, pending, result,
                 exitCode, ppc, raw, printed, list_planners, hasFiles, rootArg>>

emitVars == <<raw, printed>>

\* what the command line of pddl_planner.py holds besides --planner, --output
\* and --raw
argVars == <<list_planners, hasFiles, rootArg>>

systemVars == <<sargs, senv, failedAt, cmd, launches, launched, success, sexit, spc>>

labelVars == <<token, mockLabel, pddlLabel, labelled>>

parseVars == <<content, robot_names, parsed, lookups, perror, pprinted, pexit, qpc>>

notRouteVars == <<backendVars, systemVars, labelVars, parseVars>>

notBackendVars == <<routeVars, systemVars, labelVars, parseVars>>

notSystemVars == <<routeVars, backendVars, labelVars, parseVars>>

notLabelVars == <<routeVars, backendVars, systemVars, parseVars>>

notParseVars == <<routeVars, backendVars, systemVars, labelVars>>

vars == <<routeVars, backendVars, systemVars, labelVars, parseVars>>

\* ------------------------------------------------------------------------
\* Graph accumulation: parse_problem, lines 186-189
\* ------------------------------------------------------------------------

\* edges = defaultdict(list): no origin has a neighbour yet.
EmptyGraph == [l \in Locs |-> <<>>]

\* edges[origem].append(destino)
AppendEdge(g, origem, destino) == [g EXCEPT ![origem] = Append(@, destino)]

RECURSIVE SumLen(_, _)
SumLen(g, S) ==
    IF S = {} THEN 0
    ELSE LET l == CHOOSE x \in S : TRUE IN Len(g[l]) + SumLen(g, S \ {l})

NumEdges(g) == SumLen(g, Locs)

\* A defaultdict holds a key only once something was appended under it.
Keys(g) == {l \in Locs : g[l] # <<>>}

Values(g) == {x \in Locs : \E l \in Locs : \E i \in 1..Len(g[l]) : g[l][i] = x}

\* ------------------------------------------------------------------------
\* bfs_path, lines 203-261
\* ------------------------------------------------------------------------

\* variant without the special case of line 229
StartIsGoalNever(s, g) == FALSE

\* line 229: if start == goal
StartIsGoal(s, g) == s = g

\* variant that also follows edges backwards
NeighborsUndirected(g, node) ==
    LET back == {l \in Locs : \E i \in 1..Len(g[l]) : g[l][i] = node}
        RECURSIVE AsSeq(_)
        AsSeq(S) == IF S = {} THEN <<>>
                    ELSE LET x == CHOOSE y \in S : TRUE IN <<x>> \o AsSeq(S \ {x})
    IN g[node] \o AsSeq(back)

\* line 243: edges.get(node, [])
Neighbors(g, node) == g[node]

\* variant without the visited test
IsVisitedNever(neighbor, vis) == FALSE

\* line 245: if neighbor in visited
IsVisited(neighbor, vis) == neighbor \in vis

\* variant with break in place of continue
AfterVisitedBreak(nbs, i) == Len(nbs) + 1

\* line 246: continue (the index of the next neighbour to look at)
AfterVisited(nbs, i) == i + 1

\* line 249: new_path = path + [neighbor]
NewPath(path, neighbor) == Append(path, neighbor)

\* line 252: if neighbor == goal
ReachedGoal(neighbor, g) == neighbor = g

\* line 257: queue.append((neighbor, new_path))
Enqueue(q, item) == Append(q, item)

\* variant whose first path is empty
InitialQueueEmptyPath(s) == <<[node |-> s, path |-> <<>>]>>

\* line 236: queue = deque([(start, [start])])
InitialQueue(s) == <<[node |-> s, path |-> <<s>>]>>

\* variant with queue.pop(): last in, first out
PopRight(q) == [item |-> q[Len(q)], rest |-> SubSeq(q, 1, Len(q) - 1)]

\* line 240: node, path = queue.popleft()  (the entry taken, the rest)
PopLeft(q) == [item |-> Head(q), rest |-> Tail(q)]

\* variant that returns the last dequeued path
ExhaustedResultLastPath(path) == path

\* line 261: return None  (path is the last dequeued path, still in scope)
ExhaustedResult(path) == NoRoute

\* lines 243-257: the for loop over the neighbours of the dequeued node.
\* ret says whether the loop returned new_path (line 253).
RECURSIVE ForNeighbors(_, _, _, _, _, _, _)
ForNeighbors(nbs, i, path, vis, q, g, cnt) ==
    IF i > Len(nbs)
    THEN [ret |-> FALSE, route |-> NoRoute, visited |-> vis, queue |-> q, enq |-> cnt]
    ELSE LET neighbor == nbs[i] IN
         IF IsVisited(neighbor, vis)
         THEN ForNeighbors(nbs, AfterVisited(nbs, i), path, vis, q, g, cnt)
         ELSE LET new_path == NewPath(path, neighbor) IN
              IF ReachedGoal(neighbor, g)
              THEN [ret |-> TRUE, route |-> new_path, visited |-> vis,
                    queue |-> q, enq |-> cnt]
              ELSE ForNeighbors(nbs, i + 1, path, vis \cup {neighbor},
                                Enqueue(q, [node |-> neighbor, path |-> new_path]),
                                g, [cnt EXCEPT ![neighbor] = @ + 1])

NoCur == [node |-> "", path |-> <<>>]

RouteIdle ==
    /\ edges = EmptyGraph
    /\ start = ""
    /\ goal = ""
    /\ visited = {}
    /\ queue = <<>>
    /\ cur = NoCur
    /\ route = NoRoute
    /\ reads = 0
    /\ enq = [l \in Locs |-> 0]
    /\ bpc = "idle"
    /\ robot = ""
    /\ api_mode = FALSE
    /\ verbose_api = FALSE
    /\ stdout = <<>>
    /\ mexit = -1

InitRouteSolver ==
    /\ edges = EmptyGraph
    /\ start = ""
    /\ goal = ""
    /\ visited = {}
    /\ queue = <<>>
    /\ cur = NoCur
    /\ route = NoRoute
    /\ reads = 0
    /\ enq = [l \in Locs |-> 0]
    /\ bpc = "main"
    /\ robot = ""
    /\ api_mode = FALSE
    /\ verbose_api = FALSE
    /\ stdout = <<>>
    /\ mexit = -1

\* main, line 304: the line printed when no problem file is named
UsageLine == [kind |-> "text",
              text |-> "Usage: python examples/mock_planner.py <problem.pddl>"]

\* main, lines 303-307: without a problem file on the command line the usage
\* line is printed and the process ends with code 2; with one, the file is
\* read next.
MockArgs ==
    /\ bpc = "main"
    /\ \E named \in BOOLEAN :
          IF named
          THEN /\ bpc' = "parse"
               /\ UNCHANGED <<stdout, mexit>>
          ELSE /\ stdout' = <<UsageLine>>
               /\ mexit' = 2
               /\ bpc' = "usage"
    /\ UNCHANGED <<edges, start, goal, visited, queue, cur, route, reads, enq,
                   robot, api_mode, verbose_api>>
    /\ UNCHANGED notRouteVars

\* parse_problem, lines 187-189: one more (conectado origem destino) fact.
AddEdge ==
    /\ bpc = "parse"
    /\ NumEdges(edges) < MaxEdges
    /\ \E origem \in Locs, destino \in Locs :
          edges' = AppendEdge(edges, origem, destino)
    /\ UNCHANGED <<start, goal, visited, queue, cur, route, reads, enq, bpc>>
    /\ UNCHANGED reportVars
    /\ UNCHANGED notRouteVars

\* main, line 316: path = bfs_path(edges, start, goal)
CallBfs ==
    /\ bpc = "parse"
    /\ \E s \in Locs, g \in Locs : start' = s /\ goal' = g
    /\ bpc' = "entry"
    /\ UNCHANGED <<edges, visited, queue, cur, route, reads, enq>>
    /\ UNCHANGED reportVars
    /\ UNCHANGED notRouteVars

\* bfs_path, lines 228-236
BfsEntry ==
    /\ bpc = "entry"
    /\ IF StartIsGoal(start, goal)
       THEN /\ route' = <<start>>
            /\ bpc' = "done"
            /\ UNCHANGED <<visited, queue>>
       ELSE /\ visited' = {start}
            /\ queue' = InitialQueue(start)
            /\ bpc' = "loop"
            /\ UNCHANGED route
    /\ UNCHANGED <<edges, start, goal, cur, reads, enq>>
    /\ UNCHANGED reportVars
    /\ UNCHANGED notRouteVars

\* bfs_path, lines 238-257: one iteration of the while loop
BfsExpand ==
    /\ bpc = "loop"
    /\ queue # <<>>
    /\ LET p == PopLeft(queue)
           r == ForNeighbors(Neighbors(edges, p.item.node), 1, p.item.path,
                             visited, p.rest, goal, enq)
       IN /\ cur' = p.item
          /\ reads' = reads + 1
          /\ visited' = r.visited
          /\ queue' = r.queue
          /\ enq' = r.enq
          /\ IF r.ret
             THEN route' = r.route /\ bpc' = "done"
             ELSE UNCHANGED <<route, bpc>>
    /\ UNCHANGED <<edges, start, goal>>
    /\ UNCHANGED reportVars
    /\ UNCHANGED notRouteVars

\* bfs_path, lines 238 and 261: the queue is empty
BfsExhausted ==
    /\ bpc = "loop"
    /\ queue = <<>>
    /\ route' = ExhaustedResult(cur.path)
    /\ bpc' = "done"
    /\ UNCHANGED <<edges, start, goal, visited, queue, cur, reads, enq>>
    /\ UNCHANGED reportVars
    /\ UNCHANGED notRouteVars

\* ------------------------------------------------------------------------
\* Labels of locations: a token is the sequence of its characters
\* ------------------------------------------------------------------------

\* str.replace("_", " "), character by character from the left
RECURSIVE Replace(_)
Replace(name) ==
    IF name = <<>> THEN <<>>
    ELSE <<IF Head(name) = "_" THEN " " ELSE Head(name)>> \o Replace(Tail(name))

\* mock_planner.main, lines 332-340: pretty_map
MockPrettyMap ==
    LET keys == {<<"f", "a", "r", "m", "a", "c", "i", "a">>,
                 <<"r", "e", "c", "e", "p", "c", "a", "o">>,
                 <<"c", "o", "r", "r", "e", "d", "o", "r", "_", "c", "e", "n", "t", "r", "a", "l">>,
                 <<"c", "o", "r", "r", "e", "d", "o", "r", "_", "a", "l", "a", "_", "1">>,
                 <<"c", "o", "r", "r", "e", "d", "o", "r", "_", "a", "l", "a", "_", "2">>,
                 <<"c", "o", "r", "r", "e", "d", "o", "r", "_", "a", "l", "a", "_", "3">>,
                 <<"s", "a", "l", "a", "_", "c", "i", "r", "u", "r", "g", "i", "a">>}
    IN [k \in keys |->
          CASE k = <<"f", "a", "r", "m", "a", "c", "i", "a">> ->
                 <<"f", "a", "r", "m", "á", "c", "i", "a">>
            [] k = <<"r", "e", "c", "e", "p", "c", "a", "o">> ->
                 <<"r", "e", "c", "e", "p", "ç", "ã", "o">>
            [] k = <<"c", "o", "r", "r", "e", "d", "o", "r", "_", "c", "e", "n", "t", "r", "a", "l">> ->
                 <<"c", "o", "r", "r", "e", "d", "o", "r", " ", "c", "e", "n", "t", "r", "a", "l">>
            [] k = <<"c", "o", "r", "r", "e", "d", "o", "r", "_", "a", "l", "a", "_", "1">> ->
                 <<"c", "o", "r", "r", "e", "d", "o", "r", " ", "a", "l", "a", " ", "1">>
            [] k = <<"c", "o", "r", "r", "e", "d", "o", "r", "_", "a", "l", "a", "_", "2">> ->
                 <<"c", "o", "r", "r", "e", "d", "o", "r", " ", "a", "l", "a", " ", "2">>
            [] k = <<"c", "o", "r", "r", "e", "d", "o", "r", "_", "a", "l", "a", "_", "3">> ->
                 <<"c", "o", "r", "r", "e", "d", "o", "r", " ", "a", "l", "a", " ", "3">>
            [] k = <<"s", "a", "l", "a", "_", "c", "i", "r", "u", "r", "g", "i", "a">> ->
                 <<"s", "a", "l", "a", " ", "d", "e", " ", "c", "i", "r", "u", "r", "g", "i", "a">>]

\* variant whose entry for quarto_101 is not the underscore replacement
PddlPrettyMapDiverging ==
    LET keys == {<<"f", "a", "r", "m", "a", "c", "i", "a">>,
                 <<"r", "e", "c", "e", "p", "c", "a", "o">>,
                 <<"c", "o", "r", "r", "e", "d", "o", "r", "_", "c", "e", "n", "t", "r", "a", "l">>,
                 <<"c", "o", "r", "r", "e", "d", "o", "r", "_", "a", "l", "a", "_", "1">>,
                 <<"c", "o", "r", "r", "e", "d", "o", "r", "_", "a", "l", "a", "_", "2">>,
                 <<"c", "o", "r", "r", "e", "d", "o", "r", "_", "a", "l", "a", "_", "3">>,
                 <<"s", "a", "l", "a", "_", "c", "i", "r", "u", "r", "g", "i", "a">>,
                 <<"q", "u", "a", "r", "t", "o", "_", "1", "0", "1">>,
                 <<"q", "u", "a", "r", "t", "o", "_", "1", "0", "2">>}
    IN [k \in keys |->
          CASE k = <<"f", "a", "r", "m", "a", "c", "i", "a">> ->
                 <<"f", "a", "r", "m", "á", "c", "i", "a">>
            [] k = <<"r", "e", "c", "e", "p", "c", "a", "o">> ->
                 <<"r", "e", "c", "e", "p", "ç", "ã", "o">>
            [] k = <<"c", "o", "r", "r", "e", "d", "o", "r", "_", "c", "e", "n", "t", "r", "a", "l">> ->
                 <<"c", "o", "r", "r", "e", "d", "o", "r", " ", "c", "e", "n", "t", "r", "a", "l">>
            [] k = <<"c", "o", "r", "r", "e", "d", "o", "r", "_", "a", "l", "a", "_", "1">> ->
                 <<"c", "o", "r", "r", "e", "d", "o", "r", " ", "a", "l", "a", " ", "1">>
            [] k = <<"c", "o", "r", "r", "e", "d", "o", "r", "_", "a", "l", "a", "_", "2">> ->
                 <<"c", "o", "r", "r", "e", "d", "o", "r", " ", "a", "l", "a", " ", "2">>
            [] k = <<"c", "o", "r", "r", "e", "d", "o", "r", "_", "a", "l", "a", "_", "3">> ->
                 <<"c", "o", "r", "r", "e", "d", "o", "r", " ", "a", "l", "a", " ", "3">>
            [] k = <<"s", "a", "l", "a", "_", "c", "i", "r", "u", "r", "g", "i", "a">> ->
                 <<"s", "a", "l", "a", " ", "d", "e", " ", "c", "i", "r", "u", "r", "g", "i", "a">>
            [] k = <<"q", "u", "a", "r", "t", "o", "_", "1", "0", "1">> ->
                 <<"q", "u", "a", "r", "t", "o", " ", "n", "º", " ", "1", "0", "1">>
            [] k = <<"q", "u", "a", "r", "t", "o", "_", "1", "0", "2">> ->
                 <<"q", "u", "a", "r", "t", "o", " ", "1", "0", "2">>]

\* pddl_planner.main, lines 483-493: pretty_map
PddlPrettyMap ==
    LET keys == {<<"f", "a", "r", "m", "a", "c", "i", "a">>,
                 <<"r", "e", "c", "e", "p", "c", "a", "o">>,
                 <<"c", "o", "r", "r", "e", "d", "o", "r", "_", "c", "e", "n", "t", "r", "a", "l">>,
                 <<"c", "o", "r", "r", "e", "d", "o", "r", "_", "a", "l", "a", "_", "1">>,
                 <<"c", "o", "r", "r", "e", "d", "o", "r", "_", "a", "l", "a", "_", "2">>,
                 <<"c", "o", "r", "r", "e", "d", "o", "r", "_", "a", "l", "a", "_", "3">>,
                 <<"s", "a", "l", "a", "_", "c", "i", "r", "u", "r", "g", "i", "a">>,
                 <<"q", "u", "a", "r", "t", "o", "_", "1", "0", "1">>,
                 <<"q", "u", "a", "r", "t", "o", "_", "1", "0", "2">>}
    IN [k \in keys |->
          CASE k = <<"f", "a", "r", "m", "a", "c", "i", "a">> ->
                 <<"f", "a", "r", "m", "á", "c", "i", "a">>
            [] k = <<"r", "e", "c", "e", "p", "c", "a", "o">> ->
                 <<"r", "e", "c", "e", "p", "ç", "ã", "o">>
            [] k = <<"c", "o", "r", "r", "e", "d", "o", "r", "_", "c", "e", "n", "t", "r", "a", "l">> ->
                 <<"c", "o", "r", "r", "e", "d", "o", "r", " ", "c", "e", "n", "t", "r", "a", "l">>
            [] k = <<"c", "o", "r", "r", "e", "d", "o", "r", "_", "a", "l", "a", "_", "1">> ->
                 <<"c", "o", "r", "r", "e", "d", "o", "r", " ", "a", "l", "a", " ", "1">>
            [] k = <<"c", "o", "r", "r", "e", "d", "o", "r", "_", "a", "l", "a", "_", "2">> ->
                 <<"c", "o", "r", "r", "e", "d", "o", "r", " ", "a", "l", "a", " ", "2">>
            [] k = <<"c", "o", "r", "r", "e", "d", "o", "r", "_", "a", "l", "a", "_", "3">> ->
                 <<"c", "o", "r", "r", "e", "d", "o", "r", " ", "a", "l", "a", " ", "3">>
            [] k = <<"s", "a", "l", "a", "_", "c", "i", "r", "u", "r", "g", "i", "a">> ->
                 <<"s", "a", "l", "a", " ", "d", "e", " ", "c", "i", "r", "u", "r", "g", "i", "a">>
            [] k = <<"q", "u", "a", "r", "t", "o", "_", "1", "0", "1">> ->
                 <<"q", "u", "a", "r", "t", "o", " ", "1", "0", "1">>
            [] k = <<"q", "u", "a", "r", "t", "o", "_", "1", "0", "2">> ->
                 <<"q", "u", "a", "r", "t", "o", " ", "1", "0", "2">>]

\* humanize_location, lines 291-299
humanize_location(name, custom_map) ==
    IF name \in DOMAIN custom_map THEN custom_map[name] ELSE Replace(name)

\* pddl_planner.main, line 514: pretty_map.get(dest, dest.replace('_', ' '))
PerStepLabel(dest) ==
    IF dest \in DOMAIN PddlPrettyMap THEN PddlPrettyMap[dest] ELSE Replace(dest)

\* ------------------------------------------------------------------------
\* mock_planner.main: what is printed for the result of bfs_path
\* ------------------------------------------------------------------------

\* the robots a problem file may declare
Robots == {"robo1", "robo2"}

\* the characters of each location name
Spell ==
    [l \in Locs |->
        CASE l = "base" -> <<"b", "a", "s", "e">>
          [] l = "recepcao" -> <<"r", "e", "c", "e", "p", "c", "a", "o">>
          [] l = "corredor" -> <<"c", "o", "r", "r", "e", "d", "o", "r">>
          [] l = "farmacia" -> <<"f", "a", "r", "m", "a", "c", "i", "a">>]

\* json.dumps(...) printed on one line
JsonLine(payload) == [kind |-> "json", payload |-> payload]

\* a line of plain text
TextLine(text) == [kind |-> "text", text |-> text]

\* variant that adds a label to the no-route record
NoPathPayloadLabelled(g) ==
    [task |-> "navigate", destination |-> g, status |-> "no_path",
     destination_label |-> humanize_location(Spell[g], MockPrettyMap)]

\* main, lines 320-324
NoPathPayload(g) ==
    [task |-> "navigate", destination |-> g, status |-> "no_path"]

\* main, lines 344-348
CompactPayload(g) ==
    [task |-> "navigate", destination |-> g,
     destination_label |-> humanize_location(Spell[g], MockPrettyMap)]

\* variant that counts the waypoints instead of the hops
HopsCountingNodes(path) == Len(path)

\* main, line 352: hops = max(0, len(path) - 1)
Hops(path) == IF Len(path) - 1 > 0 THEN Len(path) - 1 ELSE 0

\* main, lines 352-365
VerbosePayload(g, path) ==
    [intent |-> "NAVIGATE",
     destination |-> g,
     destination_label |-> humanize_location(Spell[g], MockPrettyMap),
     task |-> "navigate",
     waypoints |-> path,
     waypoint_labels |->
         [i \in 1..Len(path) |-> humanize_location(Spell[path[i]], MockPrettyMap)],
     priority |-> "normal",
     constraints |-> <<>>,
     eta_seconds |-> Hops(path) * 30]

\* main, line 370: f"(navigate {robot} {a} {b})"
ActionLine(r, a, b) == [kind |-> "action", tokens |-> <<"navigate", r, a, b>>]

\* variant that pairs every waypoint with itself
PlanLinesInPlace(r, path) ==
    [i \in 1..(Len(path) - 1) |-> ActionLine(r, path[i], path[i])]

\* main, lines 369-370: one line per pair of zip(path, path[1:])
PlanLines(r, path) ==
    [i \in 1..(Len(path) - 1) |-> ActionLine(r, path[i], path[i + 1])]

\* main, lines 308-309 and 317-370; the robot and the flags of argv are
\* first used here. Falling off the end of main is exit code 0.
MockReport ==
    /\ bpc = "done"
    /\ \E r \in Robots, api \in BOOLEAN, verbose \in BOOLEAN :
          /\ robot' = r
          /\ api_mode' = api
          /\ verbose_api' = verbose
          /\ IF route = NoRoute
             THEN /\ stdout' = IF api THEN <<JsonLine(NoPathPayload(goal))>>
                            ELSE <<TextLine("No solution found (disconnected graph)")>>
                  /\ mexit' = 1
             ELSE /\ stdout' = IF api
                            THEN IF ~verbose
                                 THEN <<JsonLine(CompactPayload(goal))>>
                                 ELSE <<JsonLine(VerbosePayload(goal, route))>>
                            ELSE PlanLines(r, route)
                  /\ mexit' = 0
    /\ bpc' = "exit"
    /\ UNCHANGED <<edges, start, goal, visited, queue, cur, route, reads, enq>>
    /\ UNCHANGED notRouteVars

\* ------------------------------------------------------------------------
\* PDDLPlanner: the process environment the probes look at
\* ------------------------------------------------------------------------

SUPPORTED_PLANNERS == <<"fast-downward", "unified-planning", "pyperplan">>

Backends == {SUPPORTED_PLANNERS[i] : i \in 1..Len(SUPPORTED_PLANNERS)}

\* main, line 430: the choices argparse accepts for --planner
Requests == {"auto"} \cup Backends

\* what the command line may hold after --planner: a choice, or a name
\* argparse rejects
PlannerArgs == Requests \cup {"lama"}

\* the file arguments of solve; one of them may resolve to the root directory
RootArgs == {"none", "domain", "problem", "output"}

\* An import either succeeds, raises ImportError (the package is missing), or
\* raises something else while the package initialises (it is broken).
ImportOutcomes == {"ok", "missing", "broken"}

\* subprocess.run(["wsl", "which", "fast-downward.py"], timeout=5):
\* exit code 0, exit code # 0, TimeoutExpired, FileNotFoundError (no wsl),
\* or another OSError (wsl is there and cannot be executed).
WslOutcomes == {"found", "notfound", "timeout", "nowsl", "oserror"}

Envs ==
    [up        : ImportOutcomes,   \* import unified_planning
     upfd      : ImportOutcomes,   \* import up_fast_downward
     fdEngine  : BOOLEAN,          \* OneshotPlanner(name='fast-downward') opens
     wsl       : WslOutcomes,
     onPath    : BOOLEAN,          \* shutil.which("fast-downward.py")
     inCommonDir : BOOLEAN,        \* a conventional install directory has it
     pyperplan : ImportOutcomes]   \* import pyperplan

\* The plans a backend may hand back; an action is its token list.
Plans ==
    {<<>>,
     <<<<"navigate", "robo", "base", "farmacia">>>>,
     <<<<"navigate", "robo", "base", "recepcao">>,
       <<"navigate", "robo", "recepcao", "farmacia">>>>,
     <<<<"navigate", "robo", "base", "recepcao">>,
       <<"esperar", "robo">>,
       <<"navigate", "robo", "recepcao", "farmacia">>>>}

NoResult == [success |-> FALSE, hasPlan |-> FALSE, plan |-> <<>>,
             hasError |-> FALSE, error |-> ""]

\* return True, plan, None
Success(plan) == [success |-> TRUE, hasPlan |-> TRUE, plan |-> plan,
                  hasError |-> FALSE, error |-> ""]

\* variant that drops the message
FailureNoReason(msg) == [success |-> FALSE, hasPlan |-> FALSE, plan |-> <<>>,
                         hasError |-> FALSE, error |-> ""]

\* return False, None, message
Failure(msg) == [success |-> FALSE, hasPlan |-> FALSE, plan |-> <<>>,
                 hasError |-> TRUE, error |-> msg]

NoPending == [kind |-> "none", result |-> NoResult]

\* ------------------------------------------------------------------------
\* Detection: _check_fast_downward (67-116), _detect_available_planners (43-65)
\* ------------------------------------------------------------------------

\* lines 75-86: the engine reached through unified-planning
CheckEngine(e) == e.upfd = "ok" /\ e.up = "ok" /\ e.fdEngine

\* lines 89-99: "yes" (return True), "no" (fall through), "raise"
CheckWsl(e) ==
    CASE e.wsl = "found" -> "yes"
      [] e.wsl \in {"notfound", "timeout", "nowsl"} -> "no"
      [] OTHER -> "raise"

\* lines 67-116: "yes", "no", or "raise" when the wsl probe lets an error out
CheckFastDownward(e) ==
    IF CheckEngine(e) THEN "yes"
    ELSE IF CheckWsl(e) # "no" THEN CheckWsl(e)
    ELSE IF e.onPath THEN "yes"
    ELSE IF e.inCommonDir THEN "yes"
    ELSE "no"

\* lines 52-56 and 59-63: try: import ... except ImportError: pass
ImportProbe(outcome) ==
    CASE outcome = "ok" -> "yes"
      [] outcome = "missing" -> "no"
      [] OTHER -> "raise"

\* ------------------------------------------------------------------------
\* Selection: _select_best_planner (118-131), __init__ (35-41)
\* ------------------------------------------------------------------------

InSeq(x, sq) == \E i \in 1..Len(sq) : sq[i] = x

\* variant with the preference order reversed
PreferenceReversed == <<"pyperplan", "unified-planning", "fast-downward">>

\* line 127: the preference order
Preference == <<"fast-downward", "unified-planning", "pyperplan">>

\* lines 127-131: the first preferred backend that is available
RECURSIVE FirstPreferred(_, _, _)
FirstPreferred(pref, i, avail) ==
    IF i > Len(pref) THEN avail[1]
    ELSE IF InSeq(pref[i], avail) THEN pref[i]
    ELSE FirstPreferred(pref, i + 1, avail)

\* variant that falls back to the last backend instead of raising
SelectBestPlannerFallback(avail) ==
    IF avail = <<>> THEN "pyperplan" ELSE FirstPreferred(Preference, 1, avail)

\* lines 118-131: the backend, or "RuntimeError" when none is available
SelectBestPlanner(avail) ==
    IF avail = <<>> THEN "RuntimeError" ELSE FirstPreferred(Preference, 1, avail)

BackendIdle ==
    /\ env = [up |-> "missing", upfd |-> "missing", fdEngine |-> FALSE,
              wsl |-> "nowsl", onPath |-> FALSE, inCommonDir |-> FALSE,
              pyperplan |-> "missing"]
    /\ request = "auto"
    /\ outputFile = FALSE
    /\ available = <<>>
    /\ probed = {}
    /\ planner_type = ""
    /\ exc = ""
    /\ excFrom = ""
    /\ routine = ""
    /\ solveCalls = <<>>
    /\ tempFiles = {}
    /\ pending = NoPending
    /\ result = NoResult
    /\ exitCode = -1
    /\ ppc = "idle"
    /\ raw = FALSE
    /\ printed = <<>>
    /\ list_planners = FALSE
    /\ hasFiles = FALSE
    /\ rootArg = "none"

\* main, lines 421-424: the process starts with some command line, in some
\* environment; an output file that is the root directory is an output file
InitPlanner ==
    /\ env \in Envs
    /\ request \in PlannerArgs
    /\ outputFile \in BOOLEAN
    /\ list_planners \in BOOLEAN
    /\ hasFiles \in BOOLEAN
    /\ rootArg \in RootArgs
    /\ rootArg = "output" => outputFile
    /\ available = <<>>
    /\ probed = {}
    /\ planner_type = ""
    /\ exc = ""
    /\ excFrom = ""
    /\ routine = ""
    /\ solveCalls = <<>>
    /\ tempFiles = {}
    /\ pending = NoPending
    /\ result = NoResult
    /\ exitCode = -1
    /\ ppc = "args"
    /\ raw = FALSE
    /\ printed = <<>>

\* main, lines 449-462: parse_args ends the process with code 2 on a --planner
\* value outside the choices; --list-planners is looked at before the
\* positionals; without both positionals parser.error ends with code 2;
\* otherwise, and for --list-planners, the planner is constructed.
ParseArgs ==
    /\ ppc = "args"
    /\ IF request \notin Requests
       THEN exitCode' = 2 /\ ppc' = "exit"
       ELSE IF list_planners
       THEN ppc' = "init" /\ UNCHANGED exitCode
       ELSE IF ~hasFiles
       THEN exitCode' = 2 /\ ppc' = "exit"
       ELSE ppc' = "init" /\ UNCHANGED exitCode
    /\ UNCHANGED <<env, request, outputFile, available, probed, planner_type,
                   exc, excFrom, routine, solveCalls, tempFiles, pending, result>>
    /\ UNCHANGED emitVars
    /\ UNCHANGED argVars
    /\ UNCHANGED notBackendVars

\* __init__, line 32
BeginInit ==
    /\ ppc = "init"
    /\ planner_type' = request
    /\ ppc' = "detect_fd"
    /\ UNCHANGED <<env, request, outputFile, available, probed, exc, excFrom,
                   routine, solveCalls, tempFiles, pending, result, exitCode>>
    /\ UNCHANGED emitVars
    /\ UNCHANGED argVars
    /\ UNCHANGED notBackendVars

\* the exception leaves the running routine
Raise(type, from) ==
    /\ exc' = type
    /\ excFrom' = from
    /\ ppc' = "raised"

\* _detect_available_planners, lines 45-49
DetectFastDownward ==
    /\ ppc = "detect_fd"
    /\ probed' = probed \cup {"fast-downward"}
    /\ LET found == CheckFastDownward(env) IN
       CASE found = "yes" ->
              /\ available' = Append(available, "fast-downward")
              /\ ppc' = "detect_up"
              /\ UNCHANGED <<exc, excFrom>>
         [] found = "no" ->
              /\ ppc' = "detect_up"
              /\ UNCHANGED <<available, exc, excFrom>>
         [] OTHER ->
              /\ Raise("OSError", "_detect_available_planners")
              /\ UNCHANGED available
    /\ UNCHANGED <<env, request, outputFile, planner_type, routine, solveCalls,
                   tempFiles, pending, result, exitCode>>
    /\ UNCHANGED emitVars
    /\ UNCHANGED argVars
    /\ UNCHANGED notBackendVars

\* _detect_available_planners, lines 51-56
DetectUnifiedPlanning ==
    /\ ppc = "detect_up"
    /\ probed' = probed \cup {"unified-planning"}
    /\ LET found == ImportProbe(env.up) IN
       CASE found = "yes" ->
              /\ available' = Append(available, "unified-planning")
              /\ ppc' = "detect_pp"
              /\ UNCHANGED <<exc, excFrom>>
         [] found = "no" ->
              /\ ppc' = "detect_pp"
              /\ UNCHANGED <<available, exc, excFrom>>
         [] OTHER ->
              /\ Raise("Exception", "_detect_available_planners")
              /\ UNCHANGED available
    /\ UNCHANGED <<env, request, outputFile, planner_type, routine, solveCalls,
                   tempFiles, pending, result, exitCode>>
    /\ UNCHANGED emitVars
    /\ UNCHANGED argVars
    /\ UNCHANGED notBackendVars

\* _detect_available_planners, lines 58-65
DetectPyperplan ==
    /\ ppc = "detect_pp"
    /\ probed' = probed \cup {"pyperplan"}
    /\ LET found == ImportProbe(env.pyperplan) IN
       CASE found = "yes" ->
              /\ available' = Append(available, "pyperplan")
              /\ ppc' = "select"
              /\ UNCHANGED <<exc, excFrom>>
         [] found = "no" ->
              /\ ppc' = "select"
              /\ UNCHANGED <<available, exc, excFrom>>
         [] OTHER ->
              /\ Raise("Exception", "_detect_available_planners")
              /\ UNCHANGED available
    /\ UNCHANGED <<env, request, outputFile, planner_type, routine, solveCalls,
                   tempFiles, pending, result, exitCode>>
    /\ UNCHANGED emitVars
    /\ UNCHANGED argVars
    /\ UNCHANGED notBackendVars

\* __init__, lines 35-41
Select ==
    /\ ppc = "select"
    /\ IF request = "auto"
       THEN LET best == SelectBestPlanner(available) IN
            IF best = "RuntimeError"
            THEN /\ Raise("RuntimeError", "_select_best_planner")
                 /\ UNCHANGED planner_type
            ELSE /\ planner_type' = best
                 /\ ppc' = "constructed"
                 /\ UNCHANGED <<exc, excFrom>>
       ELSE IF ~InSeq(request, available)
            THEN /\ Raise("ValueError", "__init__")
                 /\ UNCHANGED planner_type
            ELSE /\ ppc' = "constructed"
                 /\ UNCHANGED <<planner_type, exc, excFrom>>
    /\ UNCHANGED <<env, request, outputFile, available, probed, routine,
                   solveCalls, tempFiles, pending, result, exitCode>>
    /\ UNCHANGED emitVars
    /\ UNCHANGED argVars
    /\ UNCHANGED notBackendVars

\* ------------------------------------------------------------------------
\* solve (133-158) and the solve routines
\* ------------------------------------------------------------------------

\* the routine hands its tuple back to main
Return(res) ==
    /\ result' = res
    /\ ppc' = "returned"

\* main, lines 454-455: the two lines --list-planners prints
ListLines(active, avail) ==
    <<[kind |-> "active", planner |-> active],
      [kind |-> "available", planners |-> avail]>>

\* main, lines 452-456: with --list-planners the constructed planner is
\* described on stdout and main returns 0; solve is not called
ListPlanners ==
    /\ ppc = "constructed"
    /\ list_planners
    /\ printed' = ListLines(planner_type, available)
    /\ exitCode' = 0
    /\ ppc' = "exit"
    /\ UNCHANGED <<env, request, outputFile, available, probed, planner_type,
                   exc, excFrom, routine, solveCalls, tempFiles, pending, result,
                   raw>>
    /\ UNCHANGED argVars
    /\ UNCHANGED notBackendVars

\* variant that runs the routine of fast-downward whatever backend was fixed
SolveDispatchAlwaysFastDownward ==
    /\ ppc = "constructed"
    /\ ~list_planners
    /\ routine' = "_solve_fast_downward"
    /\ solveCalls' = Append(solveCalls, "_solve_fast_downward")
    /\ ppc' = "imports"
    /\ UNCHANGED <<env, request, outputFile, available, probed, planner_type,
                   exc, excFrom, tempFiles, pending, exitCode, result>>
    /\ UNCHANGED emitVars
    /\ UNCHANGED argVars
    /\ UNCHANGED notBackendVars

\* main, lines 464-468, and solve, lines 151-158
SolveDispatch ==
    /\ ppc = "constructed"
    /\ ~list_planners
    /\ CASE planner_type = "fast-downward" ->
              /\ routine' = "_solve_fast_downward"
              /\ solveCalls' = Append(solveCalls, "_solve_fast_downward")
              /\ ppc' = "imports"
              /\ UNCHANGED result
         [] planner_type = "unified-planning" ->
              /\ routine' = "_solve_unified_planning"
              /\ solveCalls' = Append(solveCalls, "_solve_unified_planning")
              /\ ppc' = "imports"
              /\ UNCHANGED result
         [] planner_type = "pyperplan" ->
              /\ routine' = "_solve_pyperplan"
              /\ solveCalls' = Append(solveCalls, "_solve_pyperplan")
              /\ ppc' = "pyperplan"
              /\ UNCHANGED result
         [] OTHER ->
              /\ Return(Failure("Unknown planner type"))
              /\ UNCHANGED <<routine, solveCalls>>
    /\ UNCHANGED <<env, request, outputFile, available, probed, planner_type,
                   exc, excFrom, tempFiles, pending, exitCode>>
    /\ UNCHANGED emitVars
    /\ UNCHANGED argVars
    /\ UNCHANGED notBackendVars

\* An exception raised in a solve routine outside the inner try/finally:
\* _solve_fast_downward swallows it (206-208) and goes on to the system
\* binary, _solve_unified_planning turns it into a failure tuple (323-325).
Caught ==
    IF routine = "_solve_fast_downward"
    THEN ppc' = "binary" /\ UNCHANGED result
    ELSE Return(Failure("Error with unified-planning"))

\* _solve_fast_downward lines 172-176, _solve_unified_planning lines 271-283
EngineImports ==
    /\ ppc = "imports"
    /\ IF routine = "_solve_fast_downward"
       THEN /\ ppc' = IF env.up = "ok" THEN "copy_domain" ELSE "binary"
            /\ UNCHANGED <<result, exc, excFrom>>
       ELSE CASE env.up = "ok" ->
                   /\ ppc' = "copy_domain"
                   /\ UNCHANGED <<result, exc, excFrom>>
              [] env.up = "missing" ->
                   /\ Return(Failure("unified-planning library not installed"))
                   /\ UNCHANGED <<exc, excFrom>>
              [] OTHER ->
                   /\ Raise("Exception", "_solve_unified_planning")
                   /\ UNCHANGED result
    /\ UNCHANGED <<env, request, outputFile, available, probed, planner_type,
                   routine, solveCalls, tempFiles, pending, exitCode>>
    /\ UNCHANGED emitVars
    /\ UNCHANGED argVars
    /\ UNCHANGED notBackendVars

\* NamedTemporaryFile(..., suffix='.pddl', delete=False): the file is on disk
\* from here on, whatever happens inside the with block
CreateTemp(files, name) == files \cup {name}

\* open(file, 'r') and read: a directory cannot be read
Readable(arg) == IF rootArg = arg THEN {FALSE} ELSE BOOLEAN

\* open(output_file, 'w') and write: a directory cannot be written
Writable == IF rootArg = "output" THEN {FALSE} ELSE BOOLEAN

\* lines 179-182 and 287-290: copy the domain file
CopyDomain ==
    /\ ppc = "copy_domain"
    /\ tempFiles' = CreateTemp(tempFiles, "temp_domain")
    /\ \E readable \in Readable("domain") :
          IF readable
          THEN ppc' = "copy_problem" /\ UNCHANGED result
          ELSE Caught
    /\ UNCHANGED <<env, request, outputFile, available, probed, planner_type,
                   exc, excFrom, routine, solveCalls, pending, exitCode>>
    /\ UNCHANGED emitVars
    /\ UNCHANGED argVars
    /\ UNCHANGED notBackendVars

\* lines 183-186 and 292-295: copy the problem file
CopyProblem ==
    /\ ppc = "copy_problem"
    /\ tempFiles' = CreateTemp(tempFiles, "temp_problem")
    /\ \E readable \in Readable("problem") :
          IF readable
          THEN ppc' = "engine" /\ UNCHANGED result
          ELSE Caught
    /\ UNCHANGED <<env, request, outputFile, available, probed, planner_type,
                   exc, excFrom, routine, solveCalls, pending, exitCode>>
    /\ UNCHANGED emitVars
    /\ UNCHANGED argVars
    /\ UNCHANGED notBackendVars

\* whether OneshotPlanner(name=...) can open the engine the routine asks for:
\* 'fast-downward' needs up_fast_downward, 'pyperplan' needs pyperplan
EngineUsable(r, e) ==
    IF r = "_solve_fast_downward"
    THEN e.upfd = "ok" /\ e.fdEngine
    ELSE e.pyperplan = "ok"

\* what the body of the inner try can come to (188-199, 297-314)
EngineOutcomes(r, e) ==
    {"parse_error"} \cup
    (IF EngineUsable(r, e) THEN {"engine_error", "unsolved", "solved"}
                           ELSE {"no_engine"})

\* lines 188-199 and 297-314: parse, open the engine, solve, convert
RunEngine ==
    /\ ppc = "engine"
    /\ \E out \in EngineOutcomes(routine, env) :
          CASE out = "solved" ->
                 \E plan \in Plans, written \in Writable :
                    /\ written \/ outputFile
                    /\ pending' = IF written
                                  THEN [kind |-> "return", result |-> Success(plan)]
                                  ELSE [kind |-> "raise", result |-> NoResult]
            [] out = "unsolved" ->
                 pending' = [kind |-> "return",
                             result |-> Failure("No solution found")]
            [] OTHER ->
                 pending' = [kind |-> "raise", result |-> NoResult]
    /\ ppc' = "cleanup"
    /\ UNCHANGED <<env, request, outputFile, available, probed, planner_type,
                   exc, excFrom, routine, solveCalls, tempFiles, result, exitCode>>
    /\ UNCHANGED emitVars
    /\ UNCHANGED argVars
    /\ UNCHANGED notBackendVars

\* which of the two deletions fails, if any
UnlinkFailures == {"none", "domain", "problem"}

\* lines 201-205 and 317-321:
\*   try: os.unlink(temp_domain_path); os.unlink(temp_problem_path)
\*   except: pass
Unlink(files, failure) ==
    CASE failure = "none" -> files \ {"temp_domain", "temp_problem"}
      [] failure = "domain" -> files
      [] OTHER -> files \ {"temp_domain"}

\* the finally clause, then what the try block had decided
Cleanup ==
    /\ ppc = "cleanup"
    /\ \E failure \in UnlinkFailures : tempFiles' = Unlink(tempFiles, failure)
    /\ IF pending.kind = "return" THEN Return(pending.result) ELSE Caught
    /\ pending' = NoPending
    /\ UNCHANGED <<env, request, outputFile, available, probed, planner_type,
                   exc, excFrom, routine, solveCalls, exitCode>>
    /\ UNCHANGED emitVars
    /\ UNCHANGED argVars
    /\ UNCHANGED notBackendVars

\* lines 214-223: use_wsl
UseWsl(e) == e.wsl = "found"

\* lines 225-244: whether the command's first word can be started:
\* "wsl" when use_wsl, else "fast-downward.py" looked up on the search path
CanStart(e) == IF UseWsl(e) THEN TRUE ELSE e.onPath

\* _windows_to_wsl_path, lines 407-419: path_str[1] of the resolved path;
\* the root directory resolves to a string of one character
WslPathRaises == rootArg # "none"

\* lines 246-262: how the run of the command can end; a plan file that is a
\* directory exists and cannot be read
BinaryOutcomes ==
    IF rootArg = "output" THEN {"failed", "timeout", "error"}
    ELSE {"plan", "failed", "timeout", "error"}

\* _solve_fast_downward, lines 210-262: the system binary. The wsl probe
\* (215-223) lets an OSError other than FileNotFoundError out; when it
\* answers, the three paths are converted (225-228) outside any try, and the
\* IndexError of a one-character path leaves the routine.
FdBinary ==
    /\ ppc = "binary"
    /\ IF CheckWsl(env) = "raise"
       THEN /\ Raise("OSError", "_solve_fast_downward")
            /\ UNCHANGED result
       ELSE IF UseWsl(env) /\ WslPathRaises
       THEN /\ Raise("IndexError", "_solve_fast_downward")
            /\ UNCHANGED result
       ELSE /\ UNCHANGED <<exc, excFrom>>
            /\ IF ~CanStart(env)
               THEN Return(Failure("Error running Fast Downward"))
               ELSE \E out \in BinaryOutcomes :
                       CASE out = "plan" ->
                              \E plan \in Plans : Return(Success(plan))
                         [] out = "failed" ->
                              Return(Failure("Fast Downward failed"))
                         [] out = "timeout" ->
                              Return(Failure("Planner timeout (60s)"))
                         [] OTHER ->
                              Return(Failure("Error running Fast Downward"))
    /\ UNCHANGED <<env, request, outputFile, available, probed, planner_type,
                   routine, solveCalls, tempFiles, pending, exitCode>>
    /\ UNCHANGED emitVars
    /\ UNCHANGED argVars
    /\ UNCHANGED notBackendVars

\* _solve_pyperplan, lines 327-383
PyperplanSolve ==
    /\ ppc = "pyperplan"
    /\ CASE env.pyperplan = "ok" ->
              /\ UNCHANGED <<exc, excFrom>>
              /\ \E plan \in Plans, raised \in BOOLEAN :
                    IF raised
                    THEN Return(Failure("Error with pyperplan"))
                    ELSE IF plan # <<>>
                    THEN \E written \in Writable :
                            /\ written \/ outputFile
                            /\ IF written
                               THEN Return(Success(plan))
                               ELSE Return(Failure("Error with pyperplan"))
                    ELSE Return(Failure("No solution found"))
         [] env.pyperplan = "missing" ->
              /\ Return(Failure("pyperplan library not installed"))
              /\ UNCHANGED <<exc, excFrom>>
         [] OTHER ->
              /\ Raise("Exception", "_solve_pyperplan")
              /\ UNCHANGED result
    /\ UNCHANGED <<env, request, outputFile, available, probed, planner_type,
                   routine, solveCalls, tempFiles, pending, exitCode>>
    /\ UNCHANGED emitVars
    /\ UNCHANGED argVars
    /\ UNCHANGED notBackendVars

\* ------------------------------------------------------------------------
\* pddl_planner.main after solve (470-524) and the interpreter's last word
\* ------------------------------------------------------------------------

\* the string a solve routine puts in the plan for an action: its words
\* inside depth pairs of parentheses. _convert_up_plan_to_pddl (lines 391-401)
\* and _parse_fast_downward_plan (lines 379-389) give one pair; _solve_pyperplan
\* (lines 357-371) wraps a name that already has its pair.
ActionString(r, words) ==
    [depth |-> IF r = "_solve_pyperplan" THEN 2 ELSE 1, words |-> words]

\* _extract_dest, lines 497-504: drop the pairs of parentheses around a pair
RECURSIVE Unwrap(_)
Unwrap(s) ==
    IF s.depth = 0 THEN s
    ELSE LET inner == [depth |-> s.depth - 1, words |-> s.words]
         IN IF (inner.depth = 0 /\ inner.words = <<>>) \/ inner.depth >= 1
            THEN Unwrap(inner)
            ELSE [depth |-> 1, words |-> inner.words]

NoDest == ""

\* variant that takes the word before the destination
ExtractDestFromField(s) ==
    LET parts == Unwrap(s).words
    IN IF Len(parts) >= 4 THEN parts[3] ELSE NoDest

\* _extract_dest, lines 496-508: parts[3] of the words, None below four words
ExtractDest(s) ==
    LET parts == Unwrap(s).words
    IN IF Len(parts) >= 4 THEN parts[4] ELSE NoDest

\* main, lines 515-519
StepPayload(dest) ==
    [task |-> "navigate", destination |-> dest,
     destination_label |-> PerStepLabel(Spell[dest])]

\* main, lines 510-520: one record per action that has a destination
RECURSIVE PerStep(_, _)
PerStep(r, plan) ==
    IF plan = <<>> THEN <<>>
    ELSE LET dest == ExtractDest(ActionString(r, Head(plan)))
         IN (IF dest = NoDest THEN <<>> ELSE <<JsonLine(StepPayload(dest))>>)
                \o PerStep(r, Tail(plan))

\* main, lines 476-480: print(action) for every action
RawLines(r, plan) ==
    [i \in 1..Len(plan) |-> [kind |-> "raw", action |-> ActionString(r, plan[i])]]

\* main, lines 470-524: report and return the exit code
MainReport ==
    /\ ppc = "returned"
    /\ \E r \in BOOLEAN :
          /\ raw' = r
          /\ IF result.success
             THEN \E written \in (IF outputFile /\ result.plan # <<>>
                                   THEN Writable ELSE {TRUE}) :
                     /\ IF written
                        THEN /\ printed' = IF r THEN RawLines(routine, result.plan)
                                           ELSE PerStep(routine, result.plan)
                             /\ exitCode' = 0
                             /\ ppc' = "exit"
                             /\ UNCHANGED <<exc, excFrom>>
                        ELSE /\ Raise("OSError", "main")
                             /\ UNCHANGED <<exitCode, printed>>
             ELSE /\ exitCode' = 1
                  /\ ppc' = "exit"
                  /\ UNCHANGED <<exc, excFrom, printed>>
    /\ UNCHANGED <<env, request, outputFile, available, probed, planner_type,
                   routine, solveCalls, tempFiles, pending, result>>
    /\ UNCHANGED argVars
    /\ UNCHANGED notBackendVars

\* lines 527-528: an exception nobody caught ends the process with code 1
Uncaught ==
    /\ ppc = "raised"
    /\ exitCode' = 1
    /\ ppc' = "exit"
    /\ UNCHANGED <<env, request, outputFile, available, probed, planner_type,
                   exc, excFrom, routine, solveCalls, tempFiles, pending, result>>
    /\ UNCHANGED emitVars
    /\ UNCHANGED argVars
    /\ UNCHANGED notBackendVars

\* ------------------------------------------------------------------------
\* The integrated system: settings.py and planner.py
\* ------------------------------------------------------------------------

\* settings.py, lines 21-50: PLANNERS, the command and args of each key
PLANNERS ==
    [x \in {"fast-downward", "unified-planning", "pyperplan", "mock"} |->
        IF x = "mock"
        THEN [command |-> <<"python", "examples/mock_planner.py">>,
              args |-> <<>>, requires_venv |-> TRUE]
        ELSE [command |-> <<"python", "planners/pddl_planner.py">>,
              args |-> <<"--planner", x>>, requires_venv |-> TRUE]]

\* settings.py, lines 57-63
DOMAINS == [x \in {"hospital"} |-> [file |-> "domains/hospital_robot.pddl"]]

\* settings.py, lines 66-77
PROBLEMS ==
    [x \in {"01", "02"} |->
        [file |-> IF x = "01" THEN "problems/hospital_01.pddl"
                  ELSE "problems/hospital_02.pddl"]]

\* settings.py, lines 87-104: raw_flag of each format
FORMATS ==
    [x \in {"json", "raw", "save"} |-> [raw_flag |-> (x = "raw")]]

\* what the command line of planner.py may hold; "" is an absent positional
SysArgs ==
    [listing : BOOLEAN,
     planner : {"", "fast-downward", "unified-planning", "pyperplan", "mock", "lama"},
     domain  : {"", "hospital", "airport"},
     problem : {"", "01", "02", "99"},
     format  : {"json", "raw", "save", "xml"},
     output_file : {"", "plano.txt"}]

\* what the validations find on disk
SysEnvs == [venv : BOOLEAN, domainFile : BOOLEAN, problemFile : BOOLEAN]

NoArgs == [listing |-> FALSE, planner |-> "", domain |-> "", problem |-> "",
           format |-> "json", output_file |-> ""]

\* variant that does not look for the files
FirstFailureWithoutFiles(a, e) ==
    IF a.planner \notin DOMAIN PLANNERS THEN "planner"
    ELSE IF a.domain \notin DOMAIN DOMAINS THEN "domain"
    ELSE IF a.problem \notin DOMAIN PROBLEMS THEN "problem"
    ELSE IF a.format \notin DOMAIN FORMATS THEN "format"
    ELSE IF ~e.venv THEN "environment"
    ELSE "ok"

\* run_planner, lines 136-171: the first validation that fails, or "ok"
FirstFailure(a, e) ==
    IF a.planner \notin DOMAIN PLANNERS THEN "planner"
    ELSE IF a.domain \notin DOMAIN DOMAINS THEN "domain"
    ELSE IF a.problem \notin DOMAIN PROBLEMS THEN "problem"
    ELSE IF a.format \notin DOMAIN FORMATS THEN "format"
    ELSE IF ~e.venv THEN "environment"
    ELSE IF ~e.domainFile \/ ~e.problemFile THEN "files"
    ELSE "ok"

\* run_planner, lines 173-190: the command handed to the subprocess
BuildCommand(a) ==
    LET pc == PLANNERS[a.planner]
        files == IF a.planner = "mock"
                 THEN <<PROBLEMS[a.problem].file>>
                 ELSE <<DOMAINS[a.domain].file, PROBLEMS[a.problem].file>>
        fmt == IF FORMATS[a.format].raw_flag THEN <<"--raw">>
               ELSE IF a.format = "save" /\ a.output_file # ""
                    THEN <<"--output", a.output_file>>
               ELSE <<>>
    IN pc.command \o files \o pc.args \o fmt

\* planner.main, lines 285-291: print the help and return
MissingArgsExit == 0

SystemIdle ==
    /\ sargs = NoArgs
    /\ senv = [venv |-> FALSE, domainFile |-> FALSE, problemFile |-> FALSE]
    /\ failedAt = ""
    /\ cmd = <<>>
    /\ launches = 0
    /\ launched = ""
    /\ success = FALSE
    /\ sexit = -1
    /\ spc = "idle"

\* planner.main, line 254: args = parser.parse_args()
InitSystem ==
    /\ sargs \in SysArgs
    /\ senv \in SysEnvs
    /\ failedAt = ""
    /\ cmd = <<>>
    /\ launches = 0
    /\ launched = ""
    /\ success = FALSE
    /\ sexit = -1
    /\ spc = "main"

\* planner.main, lines 263-291: the listing options, then the required
\* positionals
SysMain ==
    /\ spc = "main"
    /\ IF sargs.listing
       THEN sexit' = 0 /\ spc' = "exit"
       ELSE IF sargs.planner = "" \/ sargs.domain = "" \/ sargs.problem = ""
            THEN sexit' = MissingArgsExit /\ spc' = "exit"
            ELSE spc' = "validate" /\ UNCHANGED sexit
    /\ UNCHANGED <<sargs, senv, failedAt, cmd, launches, launched, success>>
    /\ UNCHANGED notSystemVars

\* run_planner, lines 136-190: the validations, then the command
SysValidate ==
    /\ spc = "validate"
    /\ failedAt' = FirstFailure(sargs, senv)
    /\ IF FirstFailure(sargs, senv) = "ok"
       THEN /\ cmd' = BuildCommand(sargs)
            /\ spc' = "launch"
            /\ UNCHANGED success
       ELSE /\ success' = FALSE
            /\ spc' = "ran"
            /\ UNCHANGED cmd
    /\ UNCHANGED <<sargs, senv, launches, launched, sexit>>
    /\ UNCHANGED notSystemVars

\* arg is one of the words of the command
HasArg(c, arg) == \E i \in 1..Len(c) : c[i] = arg

\* what the launched planner prints for a plan. mock_planner.main, lines
\* 308 and 330-370: JSON records with --api, action lines otherwise.
\* pddl_planner.main, lines 476-520: action lines with --raw, JSON records
\* otherwise.
LaunchedPrints(c) ==
    IF HasArg(c, "examples/mock_planner.py")
    THEN IF HasArg(c, "--api") THEN "json" ELSE "actions"
    ELSE IF HasArg(c, "--raw") THEN "actions" ELSE "json"

\* how the subprocess of lines 210-214 can end
LaunchOutcomes == {"exit0", "exit1", "timeout", "exception"}

\* run_planner, lines 203-228: run the command once and look at how it ended
SysLaunch ==
    /\ spc = "launch"
    /\ launches' = launches + 1
    /\ \E out \in LaunchOutcomes :
          /\ launched' = out
          /\ success' = (out = "exit0")
    /\ spc' = "ran"
    /\ UNCHANGED <<sargs, senv, failedAt, cmd, sexit>>
    /\ UNCHANGED notSystemVars

\* planner.main, line 302: sys.exit(0 if success else 1)
SysExit ==
    /\ spc = "ran"
    /\ sexit' = IF success THEN 0 ELSE 1
    /\ spc' = "exit"
    /\ UNCHANGED <<sargs, senv, failedAt, cmd, launches, launched, success>>
    /\ UNCHANGED notSystemVars

\* ------------------------------------------------------------------------
\* Labels of locations: the tokens that are labelled
\* ------------------------------------------------------------------------

\* the characters tokens are made of, and the longest token drawn from them
Alphabet == {"a", "_", "1"}

MaxTokenLen == 4

RECURSIVE SeqsOfLen(_)
SeqsOfLen(n) ==
    IF n = 0 THEN {<<>>}
    ELSE {<<c>> \o s : c \in Alphabet, s \in SeqsOfLen(n - 1)}

\* location tokens: the keys of both tables and every short token
Tokens ==
    DOMAIN MockPrettyMap \cup DOMAIN PddlPrettyMap
        \cup UNION {SeqsOfLen(n) : n \in 1..MaxTokenLen}

LabelIdle ==
    /\ token = <<>>
    /\ mockLabel = <<>>
    /\ pddlLabel = <<>>
    /\ labelled = {}

InitLabel ==
    /\ token \in Tokens
    /\ mockLabel = <<>>
    /\ pddlLabel = <<>>
    /\ labelled = {}

\* mock_planner.main, line 341: humanize_location(goal, pretty_map)
MockLabel ==
    /\ token # <<>>
    /\ "mock" \notin labelled
    /\ mockLabel' = humanize_location(token, MockPrettyMap)
    /\ labelled' = labelled \cup {"mock"}
    /\ UNCHANGED <<token, pddlLabel>>
    /\ UNCHANGED notLabelVars

\* pddl_planner.main, line 514: the label of one per-step record
PddlLabel ==
    /\ token # <<>>
    /\ "pddl" \notin labelled
    /\ pddlLabel' = PerStepLabel(token)
    /\ labelled' = labelled \cup {"pddl"}
    /\ UNCHANGED <<token, mockLabel>>
    /\ UNCHANGED notLabelVars

\* ------------------------------------------------------------------------
\* parse_problem: the robot, the start and the goal of a problem text
\* ------------------------------------------------------------------------

\* the type tags an object line may end with
TypeTags == {"robo", "ROBO", "local", "Local"}

\* str.lower() on the type tags
Lower(t) ==
    CASE t = "ROBO" -> "robo"
      [] t = "Local" -> "local"
      [] OTHER -> t

\* the lines of an object block: groups "name1 name2 ... - tag", and a
\* comment line, which has no names and no tag
ObjectLines ==
    {[names |-> <<"r1">>, tag |-> "robo"],
     [names |-> <<"r2">>, tag |-> "ROBO"],
     [names |-> <<"r2", "r1">>, tag |-> "robo"],
     [names |-> <<"base", "farmacia">>, tag |-> "local"],
     [names |-> <<"corredor">>, tag |-> "Local"],
     [names |-> <<>>, tag |-> ""]}

\* the longest object block
MaxObjectLines == 2

RECURSIVE BlocksOfLen(_)
BlocksOfLen(n) ==
    IF n = 0 THEN {<<>>}
    ELSE {<<l>> \o b : l \in ObjectLines, b \in BlocksOfLen(n - 1)}

ObjectBlocks == UNION {BlocksOfLen(n) : n \in 0..MaxObjectLines}

\* a position fact (em robot loc)
Em(r, l) == [robot |-> r, loc |-> l]

\* the position facts of the :init section
InitFacts ==
    {<<>>,
     <<Em("r1", "base")>>,
     <<Em("r2", "corredor")>>,
     <<Em("r2", "corredor"), Em("r1", "base")>>}

\* the position facts of the :goal section
GoalFacts ==
    {<<>>,
     <<Em("r1", "farmacia")>>,
     <<Em("r2", "recepcao")>>,
     <<Em("r2", "recepcao"), Em("r1", "farmacia")>>}

\* the sections a problem text may have, in the order they are written
Sections == {"objects", "init", "goal"}

\* a problem text. sections: the sections that are written; a section that
\* is not written has no lines and no facts. bare: the :init section is
\* written "(:init)", with nothing between the keyword and its parenthesis.
\* trailer: something that is not a comment line follows the last
\* parenthesis.
Contents ==
    {c \in [objects : ObjectBlocks, init : InitFacts, goal : GoalFacts,
            trailer : BOOLEAN, sections : SUBSET Sections, bare : BOOLEAN] :
        /\ "objects" \notin c.sections => c.objects = <<>>
        /\ "init" \notin c.sections => (c.init = <<>> /\ ~c.bare)
        /\ "goal" \notin c.sections => c.goal = <<>>
        /\ c.bare => c.init = <<>>}

\* line 133: re.search of the :objects pattern finds the section
ObjectsMatch(c) == "objects" \in c.sections

\* lines 142-160: the names of the lines whose tag is robo, in line order
RECURSIVE CollectRobots(_, _)
CollectRobots(lines, names) ==
    IF lines = <<>> THEN names
    ELSE LET line == Head(lines)
         IN IF line.tag = "" THEN CollectRobots(Tail(lines), names)
            ELSE IF Lower(line.tag) = "robo"
                 THEN CollectRobots(Tail(lines), names \o line.names)
                 ELSE CollectRobots(Tail(lines), names)

\* variant that takes the robot declared last
ChosenRobotLast(names) == names[Len(names)]

\* line 164: robot = robot_names[0]
ChosenRobot(names) == names[1]

\* line 170: the alternative of the :init pattern that matches. The first
\* one ("end") runs to the two parentheses that end the text; the second one
\* ("goal") stops before (:goal and is tried when something follows those
\* parentheses; "none" when there is no :init section or neither applies.
InitMatch(c) ==
    IF "init" \notin c.sections THEN "none"
    ELSE IF ~c.trailer THEN "end"
    ELSE IF "goal" \in c.sections THEN "goal"
    ELSE "none"

\* line 173: no group of the match is non-empty. The capture is the inside
\* of the :init section, followed, for the first alternative, by the :goal
\* section when there is one.
CaptureEmpty(c) ==
    /\ c.bare
    /\ \/ InitMatch(c) = "goal"
       \/ InitMatch(c) = "end" /\ "goal" \notin c.sections

\* line 173: the position facts of the captured text
InitBlock(c) == IF InitMatch(c) = "end" THEN c.init \o c.goal ELSE c.init

\* re.search of (em robot loc): the first fact of the robot, "" if none
RECURSIVE FirstFact(_, _)
FirstFact(facts, r) ==
    IF facts = <<>> THEN ""
    ELSE IF Head(facts).robot = r THEN Head(facts).loc
    ELSE FirstFact(Tail(facts), r)

\* lines 177-182: in the block, then in the whole text
InitLookup(c, r) ==
    IF FirstFact(InitBlock(c), r) # "" THEN FirstFact(InitBlock(c), r)
    ELSE FirstFact(c.init \o c.goal, r)

\* line 195: from the :goal keyword on
GoalLookup(c, r) == FirstFact(c.goal, r)

NoParsed == [robot |-> "", start_loc |-> "", goal_loc |-> ""]

ParseIdle ==
    /\ content = [objects |-> <<>>, init |-> <<>>, goal |-> <<>>,
                  trailer |-> FALSE, sections |-> {}, bare |-> FALSE]
    /\ robot_names = <<>>
    /\ parsed = NoParsed
    /\ lookups = <<>>
    /\ perror = ""
    /\ pprinted = <<>>
    /\ pexit = -1
    /\ qpc = "idle"

\* main, line 311: parse_problem(problem_file) is called
InitParse ==
    /\ content \in Contents
    /\ robot_names = <<>>
    /\ parsed = NoParsed
    /\ lookups = <<>>
    /\ perror = ""
    /\ pprinted = <<>>
    /\ pexit = -1
    /\ qpc = "objects"

\* parse_problem, lines 133-164: the object block and the choice of the robot
ParseObjects ==
    /\ qpc = "objects"
    /\ IF ~ObjectsMatch(content)
       THEN /\ perror' = "NoObjectsBlock"
            /\ qpc' = "failed"
            /\ UNCHANGED <<robot_names, parsed>>
       ELSE LET names == CollectRobots(content.objects, <<>>)
            IN /\ robot_names' = names
               /\ IF names = <<>>
                  THEN /\ perror' = "NoRobotDeclared"
                       /\ qpc' = "failed"
                       /\ UNCHANGED parsed
                  ELSE /\ parsed' = [parsed EXCEPT !.robot = ChosenRobot(names)]
                       /\ qpc' = "init"
                       /\ UNCHANGED perror
    /\ UNCHANGED <<content, lookups, pprinted, pexit>>
    /\ UNCHANGED notParseVars

\* parse_problem, lines 170-182: the :init section, then the initial
\* position of the robot. Without a match ValueError is raised (172); a
\* match whose groups are all empty makes next() raise StopIteration (173).
ParseInit ==
    /\ qpc = "init"
    /\ IF InitMatch(content) = "none"
       THEN /\ perror' = "NoInitialBlock"
            /\ qpc' = "failed"
            /\ UNCHANGED <<parsed, lookups>>
       ELSE IF CaptureEmpty(content)
       THEN /\ perror' = "StopIteration"
            /\ qpc' = "failed"
            /\ UNCHANGED <<parsed, lookups>>
       ELSE /\ lookups' = Append(lookups,
                                 [section |-> "init", robot |-> parsed.robot])
            /\ LET loc == InitLookup(content, parsed.robot)
               IN IF loc = ""
                  THEN /\ perror' = "NoInitialPosition"
                       /\ qpc' = "failed"
                       /\ UNCHANGED parsed
                  ELSE /\ parsed' = [parsed EXCEPT !.start_loc = loc]
                       /\ qpc' = "goal"
                       /\ UNCHANGED perror
    /\ UNCHANGED <<content, robot_names, pprinted, pexit>>
    /\ UNCHANGED notParseVars

\* parse_problem, lines 195-200: the goal of the robot, then the return
ParseGoal ==
    /\ qpc = "goal"
    /\ lookups' = Append(lookups, [section |-> "goal", robot |-> parsed.robot])
    /\ LET loc == GoalLookup(content, parsed.robot)
       IN IF loc = ""
          THEN /\ perror' = "NoGoalPosition"
               /\ qpc' = "failed"
               /\ UNCHANGED parsed
          ELSE /\ parsed' = [parsed EXCEPT !.goal_loc = loc]
               /\ qpc' = "parsed"
               /\ UNCHANGED perror
    /\ UNCHANGED <<content, robot_names, pprinted, pexit>>
    /\ UNCHANGED notParseVars

\* main, lines 312-314: print the error and exit with code 1
ParseFailed ==
    /\ qpc = "failed"
    /\ pprinted' = Append(pprinted, TextLine("[ERROR]"))
    /\ pexit' = 1
    /\ qpc' = "exit"
    /\ UNCHANGED <<content, robot_names, parsed, lookups, perror>>
    /\ UNCHANGED notParseVars

\* ------------------------------------------------------------------------
\* Specifications
\* ------------------------------------------------------------------------

InitRoute == InitRouteSolver /\ BackendIdle /\ SystemIdle /\ LabelIdle /\ ParseIdle

NextRoute ==
    MockArgs \/ AddEdge \/ CallBfs \/ BfsEntry \/ BfsExpand \/ BfsExhausted \/ MockReport

SpecRoute == InitRoute /\ [][NextRoute]_vars

InitBackend == InitPlanner /\ RouteIdle /\ SystemIdle /\ LabelIdle /\ ParseIdle

NextBackend ==
    \/ ParseArgs
    \/ BeginInit
    \/ DetectFastDownward
    \/ DetectUnifiedPlanning
    \/ DetectPyperplan
    \/ Select
    \/ ListPlanners
    \/ SolveDispatch
    \/ EngineImports
    \/ CopyDomain
    \/ CopyProblem
    \/ RunEngine
    \/ Cleanup
    \/ FdBinary
    \/ PyperplanSolve
    \/ MainReport
    \/ Uncaught

SpecBackend == InitBackend /\ [][NextBackend]_vars

InitSys == InitSystem /\ RouteIdle /\ BackendIdle /\ LabelIdle /\ ParseIdle

NextSystem == SysMain \/ SysValidate \/ SysLaunch \/ SysExit

SpecSystem == InitSys /\ [][NextSystem]_vars

InitLabels == InitLabel /\ RouteIdle /\ BackendIdle /\ SystemIdle /\ ParseIdle

NextLabel == MockLabel \/ PddlLabel

SpecLabel == InitLabels /\ [][NextLabel]_vars

InitExtract == InitParse /\ RouteIdle /\ BackendIdle /\ SystemIdle /\ LabelIdle

NextParse == ParseObjects \/ ParseInit \/ ParseGoal \/ ParseFailed

SpecParse == InitExtract /\ [][NextParse]_vars

\* ------------------------------------------------------------------------
\* Reference notions the route claims are stated against
\* ------------------------------------------------------------------------

\* g holds the directed edge a -> b
HasEdge(g, a, b) == \E i \in 1..Len(g[a]) : g[a][i] = b

\* everything reachable from S in at most one hop
OneHop(g, S) == S \cup {x \in Locs : \E l \in S : HasEdge(g, l, x)}

\* number of hops of a shortest directed walk from the set S to t, -1 if none
RECURSIVE DistFrom(_, _, _, _)
DistFrom(g, S, t, k) ==
    IF t \in S THEN k
    ELSE IF OneHop(g, S) = S THEN -1
    ELSE DistFrom(g, OneHop(g, S), t, k + 1)

Dist(g, s, t) == DistFrom(g, {s}, t, 0)

\* w is a directed walk of g from s to t
IsWalk(g, w, s, t) ==
    /\ Len(w) >= 1
    /\ w[1] = s
    /\ w[Len(w)] = t
    /\ \A i \in 1..(Len(w) - 1) : HasEdge(g, w[i], w[i + 1])

\* all directed walks from s to t that visit n locations
WalksOfLen(g, s, t, n) == {w \in [1..n -> Locs] : IsWalk(g, w, s, t)}

\* position of the first occurrence of x in the list nbs
FirstIndex(nbs, x) == CHOOSE i \in 1..Len(nbs) : nbs[i] = x /\ \A j \in 1..(i - 1) : nbs[j] # x

\* the walk w as the positions of its chosen neighbours
PosKey(g, w) == [i \in 1..(Len(w) - 1) |-> FirstIndex(g[w[i]], w[i + 1])]

\* a comes no later than b when compared step by step (equal lengths)
LexLeq(a, b) ==
    \/ a = b
    \/ \E i \in 1..Len(a) : a[i] < b[i] /\ \A j \in 1..(i - 1) : a[j] = b[j]

Returned == bpc = "done"

\* ------------------------------------------------------------------------
\* Claims on the route solver (checked under SpecRoute)
\* ------------------------------------------------------------------------

\* C1: when goal is reachable from start, the route bfs_path returns has
\* exactly as many hops as the graph distance from start to goal, and no
\* directed walk from start to goal has fewer hops.
C1_ShortestRoute ==
    (Returned /\ Dist(edges, start, goal) >= 0) =>
        /\ route # NoRoute
        /\ Len(route) - 1 = Dist(edges, start, goal)
        /\ \A n \in 1..(Len(route) - 1) : WalksOfLen(edges, start, goal, n) = {}

C1_Witness ==
    /\ Returned
    /\ Len(route) = 3
    /\ WalksOfLen(edges, start, goal, 4) # {}
    /\ \E l \in Locs : HasEdge(edges, l, start)

\* C2: bfs_path returns None exactly when goal is not reachable from start
\* along directed edges.
C2_NoneIffUnreachable ==
    Returned => (route = NoRoute <=> Dist(edges, start, goal) = -1)

C2_Witness ==
    /\ Returned
    /\ route = NoRoute
    /\ HasEdge(edges, goal, start)
    /\ edges[start] # <<>>

\* C3: a returned route starts at start, ends at goal, follows a directed
\* edge at every step and visits no location twice.
C3_RouteWellFormed ==
    (Returned /\ route # NoRoute) =>
        /\ route[1] = start
        /\ route[Len(route)] = goal
        /\ \A i \in 1..(Len(route) - 1) : HasEdge(edges, route[i], route[i + 1])
        /\ \A i \in 1..Len(route) : \A j \in 1..Len(route) :
              route[i] = route[j] => i = j

C3_Witness ==
    /\ Returned
    /\ Len(route) = 3
    /\ HasEdge(edges, route[2], start)
    /\ HasEdge(edges, start, start)

\* C4: bfs_path(G, x, x) returns [x] and has looked up no entry of G.
C4_StartEqualsGoal ==
    (Returned /\ start = goal) => (route = <<start>> /\ reads = 0)

C4_Witness ==
    /\ Returned
    /\ start = goal
    /\ HasEdge(edges, start, start)
    /\ route = <<start>>

\* C5 as stated: every location of every returned route, the degenerate
\* route of start == goal included, is a key or a value of the graph.
C5_RouteInGraph_Original ==
    (Returned /\ route # NoRoute) =>
        \A i \in 1..Len(route) : route[i] \in Keys(edges) \cup Values(edges)

\* C5 amended: every location of a route returned for start # goal is a
\* key or a value of the graph.
C5_RouteInGraph ==
    (Returned /\ route # NoRoute /\ start # goal) =>
        \A i \in 1..Len(route) : route[i] \in Keys(edges) \cup Values(edges)

C5_Witness ==
    /\ Returned
    /\ start # goal
    /\ Len(route) = 3
    /\ start \notin Values(edges)

\* C6: among the routes with the fewest hops, the one returned comes first
\* when routes are compared step by step by the position of each chosen
\* neighbour in its origin's neighbour list.
C6_TieBreakByDeclarationOrder ==
    (Returned /\ route # NoRoute) =>
        \A w \in WalksOfLen(edges, start, goal, Len(route)) :
            LexLeq(PosKey(edges, route), PosKey(edges, w))

C6_Witness ==
    /\ Returned
    /\ Len(route) = 3
    /\ Cardinality(WalksOfLen(edges, start, goal, 3)) >= 2

\* ------------------------------------------------------------------------
\* Claims on the backend registry and facade (checked under SpecBackend)
\* ------------------------------------------------------------------------

\* the detected-available set A
AvailSet == {b \in Backends : InSeq(b, available)}

Detecting == ppc \in {"init", "detect_fd", "detect_up", "detect_pp"}

\* _detect_available_planners was called and is over: the first probe has
\* run and no probe is left to run
DetectionOver == probed # {} /\ ~Detecting

\* _detect_available_planners has returned its list
DetectionReturned == DetectionOver /\ excFrom # "_detect_available_planners"

\* __init__ has finished, by returning or by raising
SelectionDone == DetectionReturned /\ ppc # "select"

SelectionFailed == excFrom \in {"__init__", "_select_best_planner"}

\* C7: with request "auto" and a non-empty detected set A the selected
\* backend is the first member of A in the order fast-downward,
\* unified-planning, pyperplan; a specific request b is selected when b is
\* in A, and otherwise construction fails with ValueError, no other backend
\* is selected and none is run.
C7_SelectionPolicy ==
    SelectionDone =>
        /\ (request = "auto" /\ AvailSet # {}) =>
              /\ ~SelectionFailed
              /\ planner_type =
                    IF "fast-downward" \in AvailSet THEN "fast-downward"
                    ELSE IF "unified-planning" \in AvailSet THEN "unified-planning"
                    ELSE "pyperplan"
        /\ (request # "auto" /\ request \in AvailSet) =>
              /\ ~SelectionFailed
              /\ planner_type = request
        /\ (request # "auto" /\ request \notin AvailSet) =>
              /\ exc = "ValueError"
              /\ excFrom = "__init__"
              /\ planner_type = request
              /\ solveCalls = <<>>

C7_Witness ==
    /\ ppc = "constructed"
    /\ request = "auto"
    /\ AvailSet = {"unified-planning", "pyperplan"}
    /\ planner_type = "unified-planning"

\* C8: when nothing is detected as available, request "auto" ends in the
\* RuntimeError of _select_best_planner, the process fails, and no solve
\* routine has been invoked.
C8_NoBackendNoInvocation ==
    (SelectionDone /\ request = "auto" /\ available = <<>>) =>
        /\ exc = "RuntimeError"
        /\ excFrom = "_select_best_planner"
        /\ solveCalls = <<>>
        /\ routine = ""
        /\ ppc \in {"raised", "exit"}
        /\ (ppc = "exit" => exitCode = 1)

C8_Witness ==
    /\ ppc = "exit"
    /\ request = "auto"
    /\ probed = Backends
    /\ available = <<>>
    /\ exc = "RuntimeError"
    /\ exitCode = 1

\* the probe of backend b fails in this environment
ProbeFails(b) ==
    CASE b = "fast-downward" -> CheckFastDownward(env) # "yes"
      [] b = "unified-planning" -> env.up # "ok"
      [] OTHER -> env.pyperplan # "ok"

\* C9: no probe failure leaves _detect_available_planners: a backend whose
\* probe failed is absent from the list, and once detection is over every
\* backend has been probed.
C9_DetectionSwallowsProbeFailures ==
    /\ excFrom # "_detect_available_planners"
    /\ \A b \in probed : ProbeFails(b) => b \notin AvailSet
    /\ DetectionOver => probed = Backends

\* _solve_fast_downward or _solve_unified_planning has returned to solve
CopyingCallReturned ==
    /\ ppc = "returned"
    /\ routine \in {"_solve_fast_downward", "_solve_unified_planning"}

\* C10: when _solve_fast_downward or _solve_unified_planning returns, none
\* of the temporary .pddl copies it created is left on disk.
C10_TempFilesRemoved == CopyingCallReturned => tempFiles = {}

SolveRoutines == {"_solve_fast_downward", "_solve_unified_planning", "_solve_pyperplan"}

\* solve was entered and the backend did not produce a plan
SolveOver == solveCalls # <<>> /\ ppc \in {"returned", "raised", "exit"}

\* C11: a failure while solving never leaves solve as an exception: solve
\* returns a failure tuple with a reason, and the request ends failed
\* (exit code 1) with that reason.
C11_SolveFailureNeverEscapes ==
    /\ excFrom \notin SolveRoutines
    /\ (SolveOver /\ ~result.success) =>
          /\ result.hasError
          /\ result.error # ""
          /\ (ppc = "exit" => exitCode = 1)

\* solve has handed a tuple back
SolveReturned == ppc = "returned"

\* C12: every tuple solve returns is (True, plan, None) or
\* (False, None, reason) with a reason that is not None.
C12_ExactlyOneVariant ==
    SolveReturned =>
        \/ result.success /\ result.hasPlan /\ ~result.hasError
        \/ ~result.success /\ ~result.hasPlan /\ result.hasError /\ result.error # ""

C12_Witness ==
    /\ ppc = "returned"
    /\ routine = "_solve_fast_downward"
    /\ ~result.success
    /\ result.error = "Planner timeout (60s)"

\* C13: solve returns success only with a plan of at least one action,
\* whichever backend ran.
C13_SuccessNeedsNonEmptyPlan ==
    (SolveReturned /\ result.success) => Len(result.plan) >= 1

\* ------------------------------------------------------------------------
\* Claims on the process exit contract
\* ------------------------------------------------------------------------

\* planner.py was called without one of its required positionals
SysMissingArgs ==
    ~sargs.listing /\ (sargs.planner = "" \/ sargs.domain = "" \/ sargs.problem = "")

\* C14: a successful request exits with code 0, a failed one (no route,
\* backend failure, bad input) with code 1, and a call without the required
\* arguments with code 2; stated here for planner.main.
C14_ExitContract ==
    spc = "exit" =>
        /\ SysMissingArgs => sexit = 2
        /\ (~SysMissingArgs /\ ~sargs.listing /\ success) => sexit = 0
        /\ (~SysMissingArgs /\ ~sargs.listing /\ ~success) => sexit = 1

\* ------------------------------------------------------------------------
\* Claims on the labels
\* ------------------------------------------------------------------------

\* lab is tok with every underscore turned into a space and nothing else changed
UnderscoresAsSpaces(tok, lab) ==
    /\ Len(lab) = Len(tok)
    /\ \A i \in 1..Len(tok) : lab[i] = (IF tok[i] = "_" THEN " " ELSE tok[i])

\* lab is what the table says for tok, or tok with spaces for underscores
LabelFollowsTable(tok, lab, table) ==
    IF tok \in DOMAIN table THEN lab = table[tok] ELSE UnderscoresAsSpaces(tok, lab)

\* C18: the label of a token is its entry in the override table when it has
\* one and otherwise the token with every underscore replaced by a space, and
\* the mock planner and the per-step encoder give the same label to every
\* token although their tables differ.
C18_LabelHumanization ==
    /\ "mock" \in labelled => LabelFollowsTable(token, mockLabel, MockPrettyMap)
    /\ "pddl" \in labelled => LabelFollowsTable(token, pddlLabel, PddlPrettyMap)
    /\ labelled = {"mock", "pddl"} => mockLabel = pddlLabel

\* a token that only the table of pddl_planner overrides got both labels
C18_Witness ==
    /\ labelled = {"mock", "pddl"}
    /\ token \in DOMAIN PddlPrettyMap \ DOMAIN MockPrettyMap
    /\ mockLabel = pddlLabel

\* ------------------------------------------------------------------------
\* Claims on what the mock planner prints
\* ------------------------------------------------------------------------

\* mock_planner.main has ended after a call of bfs_path
Reported == bpc = "exit"

\* the printed lines that are actions
ActionLines == {i \in 1..Len(stdout) : stdout[i].kind = "action"}

\* C15: an unreachable goal is reported alike in every output mode and never
\* as a success: with --api (with or without --verbose-api) exactly one record
\* with the fields task = navigate, destination = goal, status = no_path and
\* no others; without --api one failure message and no action line; and the
\* exit code is 1 in every mode.
C15_NoRouteReport ==
    (Reported /\ route = NoRoute) =>
        /\ mexit = 1
        /\ Len(stdout) = 1
        /\ ActionLines = {}
        /\ api_mode =>
              /\ stdout[1].kind = "json"
              /\ DOMAIN stdout[1].payload = {"task", "destination", "status"}
              /\ stdout[1].payload.task = "navigate"
              /\ stdout[1].payload.destination = goal
              /\ stdout[1].payload.status = "no_path"
        /\ ~api_mode => stdout[1].kind = "text"

\* no route was found and both --api and --verbose-api were given
C15_Witness ==
    /\ Reported
    /\ route = NoRoute
    /\ api_mode
    /\ verbose_api
    /\ NumEdges(edges) >= 1

\* the verbose record was printed for a route that was found
VerboseReported == Reported /\ route # NoRoute /\ api_mode /\ verbose_api

\* C17: the verbose record is a projection of the route: waypoints is the
\* route in order, from start to goal; waypoint_labels has the same length and
\* its i-th entry is the label of the i-th waypoint; destination is the last
\* waypoint; eta_seconds is (len(route) - 1) * 30; priority is "normal" and
\* constraints is empty.
C17_VerboseIsProjection ==
    VerboseReported =>
        /\ Len(stdout) = 1
        /\ stdout[1].kind = "json"
        /\ LET v == stdout[1].payload
           IN /\ v.waypoints = route
              /\ v.waypoints[1] = start
              /\ v.waypoints[Len(v.waypoints)] = goal
              /\ Len(v.waypoint_labels) = Len(v.waypoints)
              /\ \A i \in 1..Len(v.waypoints) :
                    LabelFollowsTable(Spell[v.waypoints[i]], v.waypoint_labels[i],
                                      MockPrettyMap)
              /\ v.destination = v.waypoints[Len(v.waypoints)]
              /\ v.eta_seconds = (Len(route) - 1) * 30
              /\ (start = goal => v.eta_seconds = 0)
              /\ v.priority = "normal"
              /\ v.constraints = <<>>

\* a verbose record for a route of three hops that ends in a relabelled place
C17_Witness ==
    /\ VerboseReported
    /\ Len(route) = 4
    /\ goal = "farmacia"
    /\ stdout[1].payload.eta_seconds = 90

\* the action lines were printed for a route that was found
PlainReported == Reported /\ route # NoRoute /\ ~api_mode

\* C19: without --api the lines printed are the plan of the route: n - 1
\* lines for a route of n waypoints, the i-th being (navigate robot route[i]
\* route[i+1]); every line starts where the one before ended, the first
\* starts at start and the last ends at goal; for start = goal nothing is
\* printed; and the exit code is 0.
C19_PlainPlanFromRoute ==
    PlainReported =>
        /\ mexit = 0
        /\ Len(stdout) = Len(route) - 1
        /\ \A i \in 1..Len(stdout) :
              /\ stdout[i].kind = "action"
              /\ stdout[i].tokens = <<"navigate", robot, route[i], route[i + 1]>>
        /\ \A i \in 1..(Len(stdout) - 1) : stdout[i].tokens[4] = stdout[i + 1].tokens[3]
        /\ Len(stdout) >= 1 =>
              /\ stdout[1].tokens[3] = start
              /\ stdout[Len(stdout)].tokens[4] = goal
        /\ start = goal => stdout = <<>>

\* three action lines were printed, for the second of the two robots
C19_Witness ==
    /\ PlainReported
    /\ Len(route) = 4
    /\ Len(stdout) = 3
    /\ robot = "robo2"

\* ------------------------------------------------------------------------
\* Claims on the per-step records of pddl_planner.main
\* ------------------------------------------------------------------------

\* pddl_planner.main has printed the per-step records of a successful plan
PerStepEncoded == ppc = "exit" /\ exitCode = 0 /\ result.success /\ ~raw

\* the positions of the plan whose action has at least four words
RECURSIVE WithDestination(_, _)
WithDestination(plan, i) ==
    IF i > Len(plan) THEN <<>>
    ELSE (IF Len(plan[i]) >= 4 THEN <<i>> ELSE <<>>) \o WithDestination(plan, i + 1)

\* C16 as stated: for every successful plan of n actions, n records are
\* printed, in plan order, and the destination of the i-th record is the
\* destination of the i-th action.
C16_OneRecordPerAction_Original ==
    PerStepEncoded =>
        /\ Len(printed) = Len(result.plan)
        /\ \A i \in 1..Len(printed) :
              /\ Len(result.plan[i]) >= 4
              /\ printed[i].payload.destination = result.plan[i][4]

\* C16: the per-step encoding prints one compact record for every action of
\* the plan that has at least four words (verb, agent, from, to), in plan
\* order, with destination equal to the fourth word of that action; an action
\* with fewer words gets no record.
C16_OneRecordPerAction ==
    PerStepEncoded =>
        LET kept == WithDestination(result.plan, 1)
        IN /\ Len(printed) = Len(kept)
           /\ \A k \in 1..Len(kept) :
                 /\ printed[k].kind = "json"
                 /\ DOMAIN printed[k].payload = {"task", "destination", "destination_label"}
                 /\ printed[k].payload.task = "navigate"
                 /\ printed[k].payload.destination = result.plan[kept[k]][4]

\* a plan of three actions, one of them without a destination, was encoded
\* from the doubly wrapped strings of the pyperplan routine
C16_Witness ==
    /\ PerStepEncoded
    /\ routine = "_solve_pyperplan"
    /\ Len(result.plan) = 3
    /\ Len(printed) = 2
    /\ printed[2].payload.destination = "farmacia"

\* ------------------------------------------------------------------------
\* Claims on the extraction of the robot
\* ------------------------------------------------------------------------

\* the object lines that declare robots, whatever the case of the tag
RobotLines(c) ==
    {i \in 1..Len(c.objects) :
        c.objects[i].tag \in {"robo", "ROBO"} /\ c.objects[i].names # <<>>}

\* the first name of the first line that declares robots
FirstDeclaredRobot(c) ==
    LET first == CHOOSE i \in RobotLines(c) : \A j \in RobotLines(c) : i <= j
    IN c.objects[first].names[1]

\* the lines printed about the extraction that are JSON records or actions
ResultLines == {i \in 1..Len(pprinted) : pprinted[i].kind \in {"json", "action"}}

\* C20: when the object block declares robots, on one line or on several and
\* with the tag in any letter case, the first one declared is the robot of
\* the initial-position and goal lookups; when the text has an object block
\* and it declares none, extraction fails with NoRobotDeclared before any
\* lookup and the mock planner exits with code 1 without printing a JSON
\* record or an action line.
C20_FirstRobotOrNoRobotDeclared ==
    /\ (RobotLines(content) # {} /\ qpc \notin {"idle", "objects"}) =>
          /\ perror # "NoRobotDeclared"
          /\ parsed.robot = FirstDeclaredRobot(content)
          /\ \A i \in 1..Len(lookups) : lookups[i].robot = FirstDeclaredRobot(content)
    /\ (ObjectsMatch(content) /\ RobotLines(content) = {}
            /\ qpc \notin {"idle", "objects"}) =>
          /\ perror = "NoRobotDeclared"
          /\ lookups = <<>>
          /\ ResultLines = {}
          /\ qpc = "exit" => pexit = 1

\* two robots declared on two lines, the first with an upper case tag, and
\* both with position facts: the lookups were made for the first one
C20_Witness ==
    /\ qpc = "parsed"
    /\ content.objects = <<[names |-> <<"r2">>, tag |-> "ROBO"],
                           [names |-> <<"r1">>, tag |-> "robo"]>>
    /\ Len(content.init) = 2
    /\ Len(lookups) = 2
    /\ parsed = [robot |-> "r2", start_loc |-> "corredor", goal_loc |-> "recepcao"]

\* ------------------------------------------------------------------------
\* Claims on the extraction of the initial position
\* ------------------------------------------------------------------------

\* the initial-position lookup of parse_problem has been made
InitLookedUp == \E i \in 1..Len(lookups) : lookups[i].section = "init"

\* the locations the :init section gives for robot r
InitPositions(c, r) == {c.init[i].loc : i \in {j \in 1..Len(c.init) : c.init[j].robot = r}}

\* C21: when the initial state holds no position fact for the chosen robot,
\* parse_problem fails with NoInitialPosition; and the start location it
\* returns is the location of a position fact of the initial state, never
\* the one of the robot's position fact in the goal section.
C21_StartFromInitialState ==
    /\ (InitLookedUp /\ InitPositions(content, parsed.robot) = {}) =>
          perror = "NoInitialPosition"
    /\ parsed.start_loc # "" =>
          parsed.start_loc \in InitPositions(content, parsed.robot)

\* ------------------------------------------------------------------------
\* Claims on the backend used by one solve call
\* ------------------------------------------------------------------------

\* the solve routine of a backend identifier
RoutineOfBackend(b) ==
    CASE b = "fast-downward" -> "_solve_fast_downward"
      [] b = "unified-planning" -> "_solve_unified_planning"
      [] b = "pyperplan" -> "_solve_pyperplan"
      [] OTHER -> ""

\* the constructor has returned: the backend identifier is fixed
Constructed ==
    ppc \in {"constructed", "imports", "copy_domain", "copy_problem", "engine",
             "cleanup", "binary", "pyperplan", "returned"}

\* C22: one solve call uses exactly one backend, the one fixed at
\* construction (the requested one, or for "auto" the preferred available
\* one); when it fails the failure is returned and the solve routine of no
\* other backend is invoked, also when other backends are available.
C22_NoCascade ==
    /\ Len(solveCalls) <= 1
    /\ Constructed =>
          /\ planner_type \in AvailSet
          /\ request # "auto" => planner_type = request
    /\ solveCalls # <<>> =>
          /\ solveCalls[1] = RoutineOfBackend(planner_type)
          /\ routine = solveCalls[1]
    /\ (ppc = "returned" /\ ~result.success /\ planner_type \in AvailSet) =>
          solveCalls = <<RoutineOfBackend(planner_type)>>

\* fast-downward was chosen by "auto" with the two other backends available,
\* its call failed, and only its routine was invoked
C22_Witness ==
    /\ ppc = "returned"
    /\ request = "auto"
    /\ planner_type = "fast-downward"
    /\ AvailSet = {"fast-downward", "unified-planning", "pyperplan"}
    /\ ~result.success
    /\ solveCalls = <<"_solve_fast_downward">>

\* ------------------------------------------------------------------------
\* Claims on the integrated system
\* ------------------------------------------------------------------------

\* run_planner has built its command
CommandBuilt == cmd # <<>>

\* C23: for every planner of the registry (fast-downward, unified-planning,
\* pyperplan, mock) the command built for format "json" makes the launched
\* planner print JSON records, not raw action lines, and the command built
\* for format "raw" makes it print raw action lines.
C23_JsonFormatForEveryPlanner ==
    CommandBuilt =>
        /\ sargs.format = "json" => LaunchedPrints(cmd) = "json"
        /\ sargs.format = "raw" => LaunchedPrints(cmd) = "actions"

\* the validations of run_planner, in the order of the claim
Validations == <<"planner", "domain", "problem", "format", "environment", "files">>

\* validation v passes for the arguments and the environment of this call
Passes(v) ==
    CASE v = "planner" -> sargs.planner \in {"fast-downward", "unified-planning", "pyperplan", "mock"}
      [] v = "domain" -> sargs.domain = "hospital"
      [] v = "problem" -> sargs.problem \in {"01", "02"}
      [] v = "format" -> sargs.format \in {"json", "raw", "save"}
      [] v = "environment" -> senv.venv
      [] v = "files" -> senv.domainFile /\ senv.problemFile

\* run_planner has returned
RunReturned == spc \in {"ran", "exit"} /\ failedAt # ""

\* C24: run_planner launches the planner at most once and only after every
\* validation has passed, the validations being made in the order planner
\* key, domain key, problem key, format key, environment, files; when one
\* fails it returns False without a launch; after a launch it returns True
\* exactly when the exit code of the subprocess is 0, and False on another
\* exit code, a timeout or an exception.
C24_LaunchOnceAfterValidation ==
    /\ launches <= 1
    /\ launches = 1 => \A i \in 1..Len(Validations) : Passes(Validations[i])
    /\ \A i \in 1..Len(Validations) :
          failedAt = Validations[i] =>
              /\ ~Passes(Validations[i])
              /\ \A j \in 1..(i - 1) : Passes(Validations[j])
    /\ RunReturned =>
          /\ (\E i \in 1..Len(Validations) : ~Passes(Validations[i])) =>
                launches = 0 /\ ~success
          /\ (\A i \in 1..Len(Validations) : Passes(Validations[i])) =>
                launches = 1 /\ (success <=> launched = "exit0")

\* a call whose validations all passed was launched once and returned False
\* because the subprocess timed out
C24_Witness ==
    /\ spc = "ran"
    /\ failedAt = "ok"
    /\ launches = 1
    /\ launched = "timeout"
    /\ ~success

\* ------------------------------------------------------------------------
\* Claims on the system binary of fast-downward
\* ------------------------------------------------------------------------

\* _solve_fast_downward returned the failure of a command whose executable
\* could not be started
ExecutableNotLocated ==
    /\ ppc = "returned"
    /\ routine = "_solve_fast_downward"
    /\ ~result.success
    /\ result.error = "Error running Fast Downward"
    /\ ~CanStart(env)

\* C25: detection and invocation of the binary-based backend agree: in every
\* environment (library engine usable or not, binary behind wsl, binary on
\* the search path, binary only in a conventional install directory), when
\* _check_fast_downward reports fast-downward available, _solve_fast_downward
\* invokes an executable that detection found and does not fail because the
\* executable cannot be located.
C25_DetectionAgreesWithInvocation ==
    (DetectionReturned /\ "fast-downward" \in AvailSet) => ~ExecutableNotLocated

\* ------------------------------------------------------------------------
\* Claims on the termination of bfs_path
\* ------------------------------------------------------------------------

\* bfs_path is in its loop or has left it
InOrAfterLoop == bpc \in {"loop", "done", "exit"} /\ start # goal

\* the locations the loop has appended to the queue
Appended == {l \in Locs : enq[l] >= 1}

\* the graph has a self-loop, an edge given twice and a cycle of two locations
GraphWithRepeats ==
    /\ \E l \in Locs : HasEdge(edges, l, l)
    /\ \E l \in Locs : \E i, j \in 1..Len(edges[l]) : i < j /\ edges[l][i] = edges[l][j]
    /\ \E a, b \in Locs : a # b /\ HasEdge(edges, a, b) /\ HasEdge(edges, b, a)

\* C26: bfs_path terminates on every finite graph, also with cycles,
\* self-loops and duplicate edges: each location is added to the visited set
\* and enqueued at most once (start by line 236, the others by line 257),
\* the goal is never enqueued, and the loop body runs at most once per
\* location. While the loop runs, the entries left in the queue and the
\* iterations made add up to the entries ever enqueued, and the loop can
\* always take its next step, so every iteration uses up one of at most as
\* many entries as there are locations and the call returns.
C26_BfsTerminates ==
    /\ \A l \in Locs : enq[l] <= 1
    /\ reads <= Cardinality(Locs)
    /\ InOrAfterLoop =>
          /\ enq[start] = 0
          /\ enq[goal] = 0
          /\ goal \notin visited
          /\ visited = {start} \cup Appended
          /\ reads <= Cardinality(visited)
          /\ \A i, j \in 1..Len(queue) :
                /\ queue[i].node \in visited
                /\ i # j => queue[i].node # queue[j].node
    /\ bpc = "loop" =>
          /\ reads + Len(queue) = 1 + Cardinality(Appended)
          /\ ENABLED (BfsExpand \/ BfsExhausted)

\* a search of a graph with a self-loop, a duplicate edge and a cycle has
\* ended after dequeuing two locations
C26_Witness ==
    /\ bpc = "done"
    /\ start # goal
    /\ GraphWithRepeats
    /\ reads = 2
    /\ Cardinality(Appended) = 1

====
